---- MODULE Spec2Model ----
(***************************************************************************)
(* Verification model of the Dr HVAC intake pipeline:                      *)
(*   - runLoadCalc               (src/lib/loadCalc.ts, held in page.tsx)   *)
(*   - validateExteriorAnalysis  (src/app/api/intake/route.ts)             *)
(*   - applyAfueFromModelTable   (src/app/api/intake/route.ts)             *)
(*   - computeWarrantyInfo       (src/app/api/intake/route.ts)             *)
(*   - analyzeEquipmentFlags     (src/app/api/intake/route.ts)             *)
(*   - POST, the intake handler  (src/app/api/intake/route.ts)             *)
(*   - HomePage                  (src/app/page.tsx)                        *)
(*   - LoadCalcPanel             (src/components/LoadCalcPanel.tsx)        *)
(*   - ClarificationForm         (src/components/ClarificationForm.tsx)    *)
(*                                                                         *)
(* Conventions                                                             *)
(*   - A JavaScript "T | null" value is an option: <<>> is null, <<v>> is  *)
(*     the value v.                                                        *)
(*   - The numbers of runLoadCalc are IEEE-754 doubles: a record [m, e]    *)
(*     with value m * 2^e, m an arbitrary-precision natural (digits base   *)
(*     2^13, least significant first).  Every literal and every operation  *)
(*     rounds to the nearest double, ties to even.                         *)
(*   - stories is held in tenths (1.5 stories = 15), confidence and AFUE   *)
(*     literals in hundredths / whole percent, recommendedTonnage in       *)
(*     hundredths of a ton.                                                *)
(***************************************************************************)
EXTENDS Integers, Sequences, FiniteSets, TLC

VARIABLES
    lcInput,      \* LoadCalcInput handed to runLoadCalc
    lcOut,        \* <<>> before the call, <<outcome>> after it
    exterior,     \* ExteriorAnalysis | null handed to validateExteriorAnalysis
    validation,   \* <<>> before the call, <<ValidationResult>> after it
    eqHistory,    \* the equipment record, then each result of applyAfueFromModelTable
    currentYear,  \* new Date().getFullYear() at the time of the request
    enPc,         \* position in the enrichment steps of the intake handler
    enEquipment,  \* equipmentAnalysis: EquipmentAnalysis | null
    enWarranty,   \* <<>> before computeWarrantyInfo, <<WarrantyInfo>> after it
    enFlags,      \* equipmentFlags: EquipmentFlags | null (null before the step too)
    inRequest,    \* <<>> or <<form data>> of the request the handler is serving
    inExteriorOutput,   \* what the vision model returns for the exterior photo
    inEquipmentOutput,  \* what the vision model returns for the equipment photos
    inResponse,   \* <<>> or <<response>> of the handler
    pgAddress,    \* HomePage state: address
    pgExteriorPhotos,   \* number of files in exteriorPhotos (null holds none)
    pgEquipmentPhotos,  \* number of files in equipmentPhotos (null holds none)
    pgIsLoading,  \* HomePage state: isLoading
    pgRawResponse,      \* HomePage state: rawResponse, <<>> or <<the json>>
    pgAnalysis,   \* HomePage state: analysis, IntakeData | null
    pgLoadCalcResult,   \* HomePage state: loadCalcResult, LoadCalcResult | null
    pgError,      \* HomePage state: error, string | null
    pgCrashed,    \* a render of HomePage threw: the page is gone
    panelSqft,    \* LoadCalcPanel state: sqft, the characters of the entry
    panelStories, \* LoadCalcPanel state: stories, in tenths
    panelWindows, \* LoadCalcPanel state: windows
    panelSiding,  \* LoadCalcPanel state: siding
    panelResult,  \* LoadCalcPanel state: result, LoadCalcResult | null
    panelOutcome, \* how the last handleRunCalc ended: alert, error or result
    cfAnalysis,   \* ClarificationForm prop: analysis, <<>> while not mounted
    cfStories,    \* ClarificationForm state: stories, the select's value
    cfWindows,    \* ClarificationForm state: windows
    cfSiding      \* ClarificationForm state: siding

loadCalcVars == <<lcInput, lcOut>>

validatorVars == <<exterior, validation>>

clarifyVars == <<cfAnalysis, cfStories, cfWindows, cfSiding>>

backfillVars == <<eqHistory>>

enrichVars == <<currentYear, enPc, enEquipment, enWarranty, enFlags>>

intakeVars == <<inRequest, inExteriorOutput, inEquipmentOutput, inResponse>>

pageVars ==
    <<pgAddress, pgExteriorPhotos, pgEquipmentPhotos, pgIsLoading, pgRawResponse,
      pgAnalysis, pgLoadCalcResult, pgError, pgCrashed, panelSqft, panelStories,
      panelWindows, panelSiding, panelResult, panelOutcome>>

panelSelections == <<panelStories, panelWindows, panelSiding>>

vars ==
    <<loadCalcVars, validatorVars, clarifyVars, backfillVars, enrichVars, intakeVars, pageVars>>

Null == <<>>
Some(v) == <<v>>

----------------------------------------------------------------------------
(* Arbitrary-precision naturals: the 53-bit significands of doubles and     *)
(* their products exceed 2^31.  Digits are base 2^13, least significant     *)
(* first.                                                                   *)

DigitBits == 13

Base == 2^DigitBits

RECURSIVE BigFromInt(_)
BigFromInt(n) ==
    IF n = 0 THEN <<>> ELSE <<n % Base>> \o BigFromInt(n \div Base)

RECURSIVE BigToInt(_)
BigToInt(b) ==
    IF b = <<>> THEN 0 ELSE Head(b) + Base * BigToInt(Tail(b))

RECURSIVE BigMulCarry(_, _, _)
BigMulCarry(b, k, carry) ==
    IF b = <<>>
    THEN BigFromInt(carry)
    ELSE LET v == Head(b) * k + carry
         IN  <<v % Base>> \o BigMulCarry(Tail(b), k, v \div Base)

BigMulSmall(b, k) == IF k = 1 THEN b ELSE BigMulCarry(b, k, 0)

RECURSIVE BigAddCarry(_, _, _)
BigAddCarry(a, b, carry) ==
    IF a = <<>> /\ b = <<>>
    THEN BigFromInt(carry)
    ELSE LET x == IF a = <<>> THEN 0 ELSE Head(a)
             y == IF b = <<>> THEN 0 ELSE Head(b)
             v == x + y + carry
         IN  <<v % Base>>
             \o BigAddCarry(IF a = <<>> THEN <<>> ELSE Tail(a),
                            IF b = <<>> THEN <<>> ELSE Tail(b),
                            v \div Base)

BigAdd(a, b) == BigAddCarry(a, b, 0)

\* floor(b / k), long division from the most significant digit b[i] down.
RECURSIVE BigDivFrom(_, _, _, _)
BigDivFrom(b, k, i, rem) ==
    IF i = Len(b) + 1 THEN <<>>
    ELSE LET j   == Len(b) + 1 - i
             cur == rem * Base + b[j]
         IN  BigDivFrom(b, k, i + 1, cur % k) \o <<cur \div k>>

BigDivSmall(b, k) == IF k = 1 THEN b ELSE BigDivFrom(b, k, 1, 0)

\* b mod k, by the same long division
RECURSIVE BigModFrom(_, _, _, _)
BigModFrom(b, k, i, rem) ==
    IF i = 0 THEN rem ELSE BigModFrom(b, k, i - 1, (rem * Base + b[i]) % k)

BigModSmall(b, k) == BigModFrom(b, k, Len(b), 0)

\* without leading zero digits
RECURSIVE BigTrim(_)
BigTrim(b) ==
    IF b = <<>> THEN <<>>
    ELSE IF b[Len(b)] = 0 THEN BigTrim(SubSeq(b, 1, Len(b) - 1))
    ELSE b

\* the sum of a[i] * b[k + 1 - i]: column k of the long multiplication
RECURSIVE ColSum(_, _, _, _)
ColSum(a, b, k, i) ==
    IF i > Len(a) \/ i > k THEN 0
    ELSE (IF k + 1 - i <= Len(b) THEN a[i] * b[k + 1 - i] ELSE 0)
         + ColSum(a, b, k, i + 1)

RECURSIVE Propagate(_, _, _)
Propagate(cols, i, carry) ==
    IF i > Len(cols) THEN BigFromInt(carry)
    ELSE LET v == cols[i] + carry
         IN  <<v % Base>> \o Propagate(cols, i + 1, v \div Base)

BigMul(a, b) ==
    IF a = <<>> \/ b = <<>> THEN <<>>
    ELSE Propagate([k \in 1 .. (Len(a) + Len(b) - 1) |-> ColSum(a, b, k, 1)], 1, 0)

\* the number of binary digits of a natural below 2^31
RECURSIVE BitLen(_)
BitLen(n) == IF n = 0 THEN 0 ELSE 1 + BitLen(n \div 2)

\* the number of binary digits of b (b without leading zero digits)
BigBitLen(b) ==
    IF b = <<>> THEN 0 ELSE DigitBits * (Len(b) - 1) + BitLen(b[Len(b)])

\* b * 2^k
ShiftLeft(b, k) ==
    [i \in 1 .. (k \div DigitBits) |-> 0] \o BigMulSmall(b, 2^(k % DigitBits))

\* floor(b / 2^k)
ShiftRight(b, k) ==
    IF k \div DigitBits >= Len(b) THEN <<>>
    ELSE BigDivSmall(SubSeq(b, k \div DigitBits + 1, Len(b)), 2^(k % DigitBits))

\* bit k of b, bit 0 the lowest
BitSet(b, k) ==
    /\ k \div DigitBits < Len(b)
    /\ (b[k \div DigitBits + 1] \div 2^(k % DigitBits)) % 2 = 1

\* the k lowest bits of b are all zero
LowBitsZero(b, k) ==
    /\ \A i \in 1 .. (k \div DigitBits) : i > Len(b) \/ b[i] = 0
    /\ \/ k \div DigitBits >= Len(b)
       \/ b[k \div DigitBits + 1] % 2^(k % DigitBits) = 0

----------------------------------------------------------------------------
(* IEEE-754 double-precision numbers.  Every number of runLoadCalc is       *)
(* positive and far from the subnormal and overflow ranges, so a number is  *)
(* a record [m, e] with value m * 2^e and 2^52 <= m < 2^53.                 *)

SignificandBits == 53

Two52 == ShiftLeft(<<1>>, SignificandBits - 1)

Two53 == ShiftLeft(<<1>>, SignificandBits)

\* The double nearest to n * 2^e, ties to even: the rounding every
\* arithmetic operation and every literal applies.
RoundTiesEven(q, roundUp, e) ==
    IF ~roundUp THEN [m |-> q, e |-> e]
    ELSE LET m == BigAdd(q, <<1>>)
         IN  IF m = Two53 THEN [m |-> Two52, e |-> e + 1] ELSE [m |-> m, e |-> e]

DropBits(b, k, e) ==
    LET q == BigTrim(ShiftRight(b, k))
    IN  RoundTiesEven(q, BitSet(b, k - 1) /\ (~LowBitsZero(b, k - 1) \/ q[1] % 2 = 1),
                      e + k)

NearestTrimmed(b, e) ==
    LET k == BigBitLen(b) - SignificandBits
    IN  IF k <= 0 THEN [m |-> ShiftLeft(b, 0 - k), e |-> e + k]
        ELSE DropBits(b, k, e)

Nearest(n, e) == NearestTrimmed(BigTrim(n), e)

\* a positive integer below 2^31 is exact
Num(n) == Nearest(BigFromInt(n), 0)

One == Num(1)

\* x * y
Mul(x, y) ==
    IF y = One THEN x
    ELSE IF x = One THEN y
    ELSE Nearest(BigMul(x.m, y.m), x.e + y.e)

\* x / k for an integer 0 < k < 2^17: the quotient is taken to two bits
\* more than a significand holds and a last bit records a remainder
Div(x, k) ==
    LET s   == BitLen(k) + 2
        n   == ShiftLeft(x.m, s)
        rem == IF BigModSmall(n, k) = 0 THEN <<>> ELSE <<1>>
    IN  Nearest(BigAdd(BigMulSmall(BigDivSmall(n, k), 2), rem), x.e - s - 1)

\* the decimal literal n/100 (0.85 is Dec(85))
Dec(n) == Div(Num(n), 100)

\* x + y
Add(x, y) ==
    LET lo == IF x.e <= y.e THEN x.e ELSE y.e
    IN  Nearest(BigAdd(ShiftLeft(x.m, x.e - lo), ShiftLeft(y.m, y.e - lo)), lo)

\* the decimal literals of runLoadCalc
Lit_0_15 == Dec(15)

Lit_0_20 == Dec(20)

Lit_0_25 == Dec(25)

Lit_0_85 == Dec(85)

Lit_0_90 == Dec(90)

Lit_0_95 == Dec(95)

Lit_0_97 == Dec(97)

Lit_0_99 == Dec(99)

Lit_1_05 == Dec(105)

Lit_1_08 == Dec(108)

Lit_1_10 == Dec(110)

Lit_1_15 == Dec(115)

Lit_1_20 == Dec(120)

\* Math.floor where Math.round is meant
MathRound_floor(x) == BigToInt(ShiftRight(x.m, 0 - x.e))

\* Math.round: the nearest integer, ties towards +Infinity:
\* floor(x + 1/2) = floor((floor(2 x) + 1) / 2), exact on the double x.
MathRound(x) ==
    (BigToInt(ShiftRight(BigMulSmall(x.m, 2), 0 - x.e)) + 1) \div 2

\* Number.prototype.toFixed(2) of a tonnage held in hundredths: the digits
\* before and after the decimal point.
ToFixed2(t100) == <<t100 \div 100, t100 % 100>>

----------------------------------------------------------------------------
(* runLoadCalc (src/lib/loadCalc.ts).                                       *)

PlainNote(text) == [text |-> text, btuh |-> 0, tons |-> <<>>]

\* the template literal of the closing note, with its two interpolations
SummaryNote(btuh, tons) ==
    [text |-> "Based on the inputs, total design load is ~{btuh} BTU/h, which is roughly {tons} tons.",
     btuh |-> btuh, tons |-> tons]

\* each factor step yields the factor and the notes it pushes
Step(factor, notes) == [factor |-> factor, notes |-> notes]

insulationFactor(insulation) ==
    CASE insulation = "good" ->
           Step(Lit_0_85, <<PlainNote("Good insulation: slightly reduced load.")>>)
      [] insulation = "average" -> Step(One, <<>>)
      [] insulation = "poor" ->
           Step(Lit_1_20, <<PlainNote("Poor insulation: increased envelope load.")>>)
      [] OTHER -> Step(One, <<>>)

windowFactor(windows) ==
    CASE windows = "few" ->
           Step(Lit_0_90, <<PlainNote("Few windows: reduced gain/loss.")>>)
      [] windows = "average" -> Step(One, <<>>)
      [] windows = "many" ->
           Step(Lit_1_15, <<PlainNote("Many windows: increased gain/loss.")>>)
      [] windows = "unknown" ->
           Step(One, <<PlainNote("Window amount unknown: assuming average.")>>)
      [] OTHER -> Step(One, <<>>)

orientationFactor(orientation) ==
    CASE orientation \in {"south", "west"} ->
           Step(Lit_1_10, <<PlainNote("South/West orientation: higher solar gain.")>>)
      [] orientation = "north" ->
           Step(Lit_0_95, <<PlainNote("North orientation: slightly lower solar gain.")>>)
      [] orientation = "east" -> Step(Lit_1_05, <<>>)
      [] orientation \in {"mixed", "unknown"} -> Step(One, <<>>)
      [] OTHER -> Step(One, <<>>)

\* stories > 2 where stories >= 2 is meant
storiesFactor_strict(stories) ==
    IF stories > 20
    THEN [factor |-> Lit_1_08,
          notes |-> <<[text |-> "Multi-story: extra load for stack effect and envelope area.",
                       btuh |-> 0, tons |-> <<>>]>>]
    ELSE [factor |-> One, notes |-> <<>>]

\* stories is in tenths: stories >= 2
storiesFactor(stories) ==
    IF stories >= 20
    THEN Step(Lit_1_08,
              <<PlainNote("Multi-story: extra load for stack effect and envelope area.")>>)
    ELSE Step(One, <<>>)

\* brick taken for an ordinary siding
sidingFactor_noBrick(siding) ==
    CASE siding = "stucco" -> [factor |-> Lit_0_99, notes |-> <<>>]
      [] OTHER -> [factor |-> One, notes |-> <<>>]

sidingFactor(siding) ==
    CASE siding = "brick" -> Step(Lit_0_97, <<>>)
      [] siding = "stucco" -> Step(Lit_0_99, <<>>)
      [] siding \in {"fiber cement", "wood", "vinyl", "mixed", "unknown"} ->
           Step(One, <<>>)
      [] OTHER -> Step(One, <<>>)

ductFactor(ductsInAtticOrCrawl) ==
    IF ductsInAtticOrCrawl
    THEN Step(Lit_1_10,
              <<PlainNote("Ducts in unconditioned space: 10% penalty added.")>>)
    ELSE Step(One, <<>>)

\* both boundaries exclusive
latentRatio_exclusive(indoorRH) ==
    IF indoorRH < 35 THEN Lit_0_15
    ELSE IF indoorRH > 55 THEN Lit_0_25
    ELSE Lit_0_20

\* the latent ratio chosen from indoorRH
latentRatio(indoorRH) ==
    IF indoorRH <= 35 THEN Lit_0_15
    ELSE IF indoorRH >= 55 THEN Lit_0_25
    ELSE Lit_0_20

\* sqft < 0 where sqft <= 0 is meant
InvalidSqft_strict(sqft) == sqft < 0

\* the guard that throws Error("sqft must be > 0")
InvalidSqft(sqft) == sqft <= 0

\* const basePerSqFt = basePerSqFtAt30 * (designDeltaT / 30)
basePerSqFt(designDeltaT) == Mul(Num(10), Div(Num(designDeltaT), 30))

\* basePerSqFt * insulationFactor * windowFactor * orientationFactor *
\* storiesFactor * sidingFactor * ductFactor
sensiblePerSqFt(input) ==
    Mul(Mul(Mul(Mul(Mul(Mul(
        basePerSqFt(input.designDeltaT),
        insulationFactor(input.insulation).factor),
        windowFactor(input.windows).factor),
        orientationFactor(input.orientation).factor),
        storiesFactor(input.stories).factor),
        sidingFactor(input.siding).factor),
        ductFactor(input.ductsInAtticOrCrawl).factor)

\* the duct note pushed first
factorNotes_ductFirst(input) ==
    ductFactor(input.ductsInAtticOrCrawl).notes
    \o insulationFactor(input.insulation).notes
    \o windowFactor(input.windows).notes
    \o orientationFactor(input.orientation).notes
    \o storiesFactor(input.stories).notes

\* the notes pushed by the factor steps, in statement order
factorNotes(input) ==
    insulationFactor(input.insulation).notes
    \o windowFactor(input.windows).notes
    \o orientationFactor(input.orientation).notes
    \o storiesFactor(input.stories).notes
    \o ductFactor(input.ductsInAtticOrCrawl).notes

\* rounding to the nearest tenth of a ton instead of the nearest quarter
recommendedTonnage_tenths(totalBTUH) ==
    MathRound(Mul(Div(totalBTUH, 12000), Num(10))) * 10

\* Math.round(rawTonnage * 4) / 4, in hundredths of a ton
recommendedTonnage(totalBTUH) ==
    MathRound(Mul(Div(totalBTUH, 12000), Num(4))) * 25

\* notes.push(summary) and the return statement: each load rounded on its
\* own, the notes array the one the steps pushed to
LoadCalcReturn(input, sensibleBTUH, latentBTUH, totalBTUH) ==
    LET tonnage == recommendedTonnage(totalBTUH)
        notes   == Append(factorNotes(input),
                          SummaryNote(MathRound(totalBTUH), ToFixed2(tonnage)))
    IN  [threw |-> FALSE, error |-> "", notes |-> notes,
         result |-> Some([sensibleBTUH       |-> MathRound(sensibleBTUH),
                          latentBTUH         |-> MathRound(latentBTUH),
                          totalBTUH          |-> MathRound(totalBTUH),
                          recommendedTonnage |-> tonnage,
                          notes              |-> notes])]

\* const latentBTUH = sensibleBTUH * latentRatio;
\* const totalBTUH = sensibleBTUH + latentBTUH
WithSensible(input, sensibleBTUH) ==
    LET latentBTUH == Mul(sensibleBTUH, latentRatio(input.indoorRH))
    IN  LoadCalcReturn(input, sensibleBTUH, latentBTUH,
                       Add(sensibleBTUH, latentBTUH))

\* The outcome of one call: threw, with the notes array as it stood at the
\* throw, or the returned LoadCalcResult.
runLoadCalc(input) ==
    IF InvalidSqft(input.sqft)
    THEN [threw |-> TRUE, error |-> "sqft must be > 0", notes |-> <<>>,
          result |-> Null]
    ELSE WithSensible(input, Mul(sensiblePerSqFt(input), Num(input.sqft)))

----------------------------------------------------------------------------
(* JavaScript values of mixed type (number | string | null | undefined).    *)

JsNum(n) == [kind |-> "number", num |-> n, str |-> ""]
JsStr(s) == [kind |-> "string", num |-> 0, str |-> s]
JsNull == [kind |-> "null", num |-> 0, str |-> ""]
JsUndefined == [kind |-> "undefined", num |-> 0, str |-> ""]

\* v === null || v === undefined
IsNullish(v) == v.kind \in {"null", "undefined"}

\* a string held as its characters, for trim() and toUpperCase()
JsChars(cs) == [kind |-> "string", chars |-> cs]
NullChars == [kind |-> "null", chars |-> <<>>]
UndefinedChars == [kind |-> "undefined", chars |-> <<>>]

----------------------------------------------------------------------------
(* validateExteriorAnalysis (src/app/api/intake/route.ts).                  *)

ReuploadIssue ==
    "I couldn't confidently read this photo. Please upload a clearer exterior shot (front of the house)."

LowConfidenceIssue ==
    "Overall confidence is low. Please confirm a few key details (stories, siding type, and approximate window amount)."

StoriesIssue ==
    "I couldn't determine the number of stories. Please select: 1, 1.5, 2, or 3 stories."

WindowsIssue ==
    "I couldn't clearly estimate window amount. Please choose: few, average, or many windows."

SidingIssue ==
    "Siding type is unclear. Please choose the closest match: vinyl, wood, fiber cement, stucco, brick, or mixed."

\* const confidence = analysis.confidence ?? 0   (hundredths)
confidenceOrZero(analysis) ==
    IF analysis.confidence = Null THEN 0 ELSE analysis.confidence[1]

\* confidence <= 0.75 where confidence < 0.75 is meant
LowConfidence_inclusive(analysis) == confidenceOrZero(analysis) <= 75

\* confidence < 0.75
LowConfidence(analysis) == confidenceOrZero(analysis) < 75

StoriesUnknown(analysis) ==
    \/ analysis.stories = JsStr("unknown")
    \/ analysis.stories.kind = "null"
    \/ analysis.stories.kind = "undefined"

WindowsUnknown(analysis) == analysis.windows \in {"unknown", "", "unclear"}

SidingUnknown(analysis) == analysis.siding \in {"unknown", ""}

\* the checks of a present record stop at the first one that fails
validatePresent_shortCircuit(a) ==
    LET issues == IF LowConfidence(a) THEN <<LowConfidenceIssue>>
                  ELSE IF StoriesUnknown(a) THEN <<StoriesIssue>>
                  ELSE IF WindowsUnknown(a) THEN <<WindowsIssue>>
                  ELSE IF SidingUnknown(a) THEN <<SidingIssue>>
                  ELSE <<>>
    IN  [issues |-> issues, needsClarification |-> Len(issues) > 0]

\* the four checks of a present record, each pushing its issue
validatePresent(a) ==
    LET issues1 == IF LowConfidence(a) THEN <<LowConfidenceIssue>> ELSE <<>>
        issues2 == IF StoriesUnknown(a) THEN Append(issues1, StoriesIssue) ELSE issues1
        issues3 == IF WindowsUnknown(a) THEN Append(issues2, WindowsIssue) ELSE issues2
        issues  == IF SidingUnknown(a) THEN Append(issues3, SidingIssue) ELSE issues3
    IN  [issues |-> issues, needsClarification |-> Len(issues) > 0]

\* the early return for an absent record
validateAbsent == [issues |-> <<ReuploadIssue>>, needsClarification |-> TRUE]

\* an absent record falls through to the final return with no issue pushed
validateExteriorAnalysis_noNullCheck(analysis) ==
    IF analysis = Null
    THEN [issues |-> <<>>, needsClarification |-> FALSE]
    ELSE validatePresent(analysis[1])

validateExteriorAnalysis(analysis) ==
    IF analysis = Null THEN validateAbsent ELSE validatePresent(analysis[1])

----------------------------------------------------------------------------
(* applyAfueFromModelTable (src/app/api/intake/route.ts).                   *)

LowerCase ==
    <<"a", "b", "c", "d", "e", "f", "g", "h", "i", "j", "k", "l", "m",
      "n", "o", "p", "q", "r", "s", "t", "u", "v", "w", "x", "y", "z">>

UpperCase ==
    <<"A", "B", "C", "D", "E", "F", "G", "H", "I", "J", "K", "L", "M",
      "N", "O", "P", "Q", "R", "S", "T", "U", "V", "W", "X", "Y", "Z">>

WhiteSpace == {" ", "\t", "\n"}

ToUpperChar(c) ==
    IF \E i \in DOMAIN LowerCase : LowerCase[i] = c
    THEN UpperCase[CHOOSE i \in DOMAIN LowerCase : LowerCase[i] = c]
    ELSE c

\* String.prototype.toUpperCase
ToUpperCase(cs) == [i \in DOMAIN cs |-> ToUpperChar(cs[i])]

RECURSIVE TrimStart(_)
TrimStart(cs) ==
    IF cs /= <<>> /\ Head(cs) \in WhiteSpace THEN TrimStart(Tail(cs)) ELSE cs

RECURSIVE TrimEnd(_)
TrimEnd(cs) ==
    IF cs /= <<>> /\ cs[Len(cs)] \in WhiteSpace
    THEN TrimEnd(SubSeq(cs, 1, Len(cs) - 1))
    ELSE cs

\* String.prototype.trim
Trim(cs) == TrimEnd(TrimStart(cs))

\* the key upper-cased but not trimmed
NormalizeKey_noTrim(rawModel) == ToUpperCase(rawModel)

\* const key = rawModel.trim().toUpperCase()
NormalizeKey(rawModel) == ToUpperCase(Trim(rawModel))

KeyTrane == <<"A", "U", "D", "2", "B", "0", "8", "0", "A", "9", "V", "3", "V", "B", "A">>

KeyGoodman == <<"G", "M", "H", "9", "5", "0", "7", "0", "3", "B", "X">>

AFUE_MODEL_TABLE == (KeyTrane :> 80) @@ (KeyGoodman :> 95)

\* a truthiness test (if (equipment.afue)) where the null test is meant
AfueAlreadySet_truthy(equipment) ==
    equipment.afue.kind = "number" /\ equipment.afue.num /= 0

\* equipment.afue !== null && equipment.afue !== undefined
AfueAlreadySet(equipment) == ~IsNullish(equipment.afue)

\* the source overwritten by "model_lookup" whatever it was
backfilledSource_always(afueSource) == JsStr("model_lookup")

\* equipment.afueSource && equipment.afueSource !== "unknown" ? equipment.afueSource : "model_lookup"
backfilledSource(afueSource) ==
    IF afueSource.kind = "string" /\ afueSource.str /= "" /\ afueSource.str /= "unknown"
    THEN afueSource
    ELSE JsStr("model_lookup")

applyAfueFromModelTable(equipment) ==
    IF equipment = Null THEN equipment
    ELSE LET e        == equipment[1]
             rawModel == IF e.modelNumber.kind = "string" THEN e.modelNumber.chars ELSE <<>>
             key      == NormalizeKey(rawModel)
         IN  IF AfueAlreadySet(e) THEN equipment
             ELSE IF rawModel = <<>> THEN equipment
             ELSE IF key \in DOMAIN AFUE_MODEL_TABLE
                  THEN Some([e EXCEPT !.afue = JsNum(AFUE_MODEL_TABLE[key]),
                                      !.afueSource = backfilledSource(e.afueSource)])
                  ELSE equipment

----------------------------------------------------------------------------
(* computeWarrantyInfo and analyzeEquipmentFlags                            *)
(* (src/app/api/intake/route.ts).                                           *)

\* !v for a number | null | undefined
Falsy(v) == IsNullish(v) \/ (v.kind = "number" /\ v.num = 0)

\* !equipment || !equipment.manufactureYear
NoManufactureYear(equipment) ==
    equipment = Null \/ Falsy(equipment[1].manufactureYear)

\* age <= 10
InPartsWarranty(age) == age <= 10

computeWarrantyInfo(equipment, year) ==
    IF NoManufactureYear(equipment)
    THEN [manufactureYear |-> JsNull, approxAgeYears |-> JsNull,
          likelyWarrantyStatus |-> "unknown"]
    ELSE LET age == year - equipment[1].manufactureYear.num
         IN  [manufactureYear |-> equipment[1].manufactureYear,
              approxAgeYears |-> JsNum(age),
              likelyWarrantyStatus |->
                  IF InPartsWarranty(age) THEN "likely_in_parts_warranty"
                  ELSE "likely_out_of_warranty"]

MismatchNote ==
    "AI/model lookup says 90%+ AFUE, but venting appears to be metal/B-vent only. This often indicates an 80% furnace. Please confirm AFUE manually."

PvcNote ==
    "Venting appears to be PVC, which often indicates a 90%+ condensing furnace. Confirm AFUE from the rating plate."

\* const afue = equipment.afue ?? null
afueOrNull(equipment) == IF IsNullish(equipment.afue) THEN JsNull ELSE equipment.afue

\* const ventType = equipment.ventType ?? "unknown"
ventTypeOrUnknown(equipment) ==
    IF IsNullish(equipment.ventType) THEN JsStr("unknown") ELSE equipment.ventType

\* afue > 90 where afue >= 90 is meant
MismatchApplies_strict(afue, ventType) ==
    afue /= JsNull /\ afue.num > 90 /\ ventType = JsStr("metal_flue")

\* afue !== null && afue >= 90 && ventType === "metal_flue"
MismatchApplies(afue, ventType) ==
    afue /= JsNull /\ afue.num >= 90 /\ ventType = JsStr("metal_flue")

\* both comparisons of the second test negated
PvcNoteApplies_negated(afue, ventType) == afue /= JsNull /\ ventType /= JsStr("pvc")

\* afue === null && ventType === "pvc"
PvcNoteApplies(afue, ventType) == afue = JsNull /\ ventType = JsStr("pvc")

analyzeEquipmentFlags(equipment) ==
    IF equipment = Null THEN Null
    ELSE LET afue     == afueOrNull(equipment[1])
             ventType == ventTypeOrUnknown(equipment[1])
             notes1   == IF MismatchApplies(afue, ventType) THEN <<MismatchNote>> ELSE <<>>
             notes    == IF PvcNoteApplies(afue, ventType) THEN Append(notes1, PvcNote)
                         ELSE notes1
         IN  Some([afueVentMismatch |-> MismatchApplies(afue, ventType), notes |-> notes])

----------------------------------------------------------------------------
(* The inputs runLoadCalc is exercised on.                                  *)

\* square footage: -1 .. MaxSmallSqft, and the 2200 of the worked examples
MaxSmallSqft == 1

SqftValues == (-1 .. MaxSmallSqft) \cup {2200}

StoriesValues == {10, 15, 20, 30}

WindowAmounts == {"few", "average", "many", "unknown"}

Orientations == {"north", "south", "east", "west", "mixed", "unknown"}

InsulationLevels == {"poor", "average", "good"}

SidingTypes == {"vinyl", "wood", "fiber cement", "stucco", "brick", "mixed", "unknown"}

DesignDeltaTs == {30, 40}

IndoorRHs == {35, 45, 55}

LoadCalcInputs ==
    [sqft : SqftValues, stories : StoriesValues, windows : WindowAmounts,
     orientation : Orientations, insulation : InsulationLevels,
     siding : SidingTypes, designDeltaT : DesignDeltaTs, indoorRH : IndoorRHs,
     ductsInAtticOrCrawl : BOOLEAN]

----------------------------------------------------------------------------
(* Specification of the load calculator: one call on any input.             *)

IdleValidator == exterior = Null /\ validation = Null

\* no ClarificationForm is mounted
IdleClarify ==
    /\ cfAnalysis = Null
    /\ cfStories = ""
    /\ cfWindows = ""
    /\ cfSiding = ""

IdleBackfill == eqHistory = <<>>

IdleEnrich ==
    /\ currentYear = 2025
    /\ enPc = "idle"
    /\ enEquipment = Null
    /\ enWarranty = Null
    /\ enFlags = Null

\* no request being served
IdleIntake ==
    /\ inRequest = Null
    /\ inExteriorOutput = Null
    /\ inEquipmentOutput = Null
    /\ inResponse = Null

\* the exterior record of the analysis the page holds, <<>> when there is none
\* (analysis?.exteriorAnalysis)
AnalysedExterior(analysis) ==
    IF analysis = <<>> THEN <<>>
    ELSE IF analysis[1].exteriorAnalysis = <<>> THEN <<>>
    ELSE analysis[1].exteriorAnalysis[1]

\* typeof analysis?.exteriorAnalysis?.stories === "number" ? stories : undefined
defaultStories(analysis) ==
    IF AnalysedExterior(analysis) = <<>> THEN <<>>
    ELSE IF AnalysedExterior(analysis)[1].stories.kind = "number"
         THEN <<AnalysedExterior(analysis)[1].stories.num>>
    ELSE <<>>

\* analysis?.exteriorAnalysis?.windows ? windows : undefined
defaultWindows(analysis) ==
    IF AnalysedExterior(analysis) = <<>> THEN <<>>
    ELSE IF AnalysedExterior(analysis)[1].windows /= ""
         THEN <<AnalysedExterior(analysis)[1].windows>>
    ELSE <<>>

\* analysis?.exteriorAnalysis?.siding ? siding : undefined
defaultSiding(analysis) ==
    IF AnalysedExterior(analysis) = <<>> THEN <<>>
    ELSE IF AnalysedExterior(analysis)[1].siding /= ""
         THEN <<AnalysedExterior(analysis)[1].siding>>
    ELSE <<>>

\* useState(default ?? fallback): the prop as it is when the panel mounts
MountValue(default, fallback) == IF default = <<>> THEN fallback ELSE default[1]

\* the useState initial values of HomePage and LoadCalcPanel
IdlePage ==
    /\ pgAddress = ""
    /\ pgExteriorPhotos = 0
    /\ pgEquipmentPhotos = 0
    /\ pgIsLoading = FALSE
    /\ pgRawResponse = Null
    /\ pgAnalysis = Null
    /\ pgLoadCalcResult = Null
    /\ pgError = Null
    /\ pgCrashed = FALSE
    /\ panelSqft = <<>>
    /\ panelStories = MountValue(defaultStories(pgAnalysis), 10)
    /\ panelWindows = MountValue(defaultWindows(pgAnalysis), "average")
    /\ panelSiding = MountValue(defaultSiding(pgAnalysis), "unknown")
    /\ panelResult = Null
    /\ panelOutcome = "none"

InitLoadCalc ==
    /\ lcInput \in LoadCalcInputs
    /\ lcOut = Null
    /\ IdleValidator
    /\ IdleClarify
    /\ IdleBackfill
    /\ IdleEnrich
    /\ IdleIntake
    /\ IdlePage

RunLoadCalc ==
    /\ lcOut = Null
    /\ lcOut' = Some(runLoadCalc(lcInput))
    /\ UNCHANGED <<lcInput, validatorVars, clarifyVars, backfillVars, enrichVars, intakeVars,
                   pageVars>>

NextLoadCalc == RunLoadCalc

SpecLoadCalc == InitLoadCalc /\ [][NextLoadCalc]_vars

----------------------------------------------------------------------------
(* Specification of the exterior validator: one call on any record.         *)

StoriesReadings ==
    {JsNum(10), JsNum(15), JsNum(20), JsNum(30), JsStr("unknown"), JsStr("2"),
     JsNull, JsUndefined}

ConfidenceReadings == {Null} \cup {Some(c) : c \in {0, 74, 75, 80, 100}}

ExteriorAnalyses ==
    [stories : StoriesReadings,
     siding : SidingTypes \cup {""},
     windows : WindowAmounts \cup {"", "unclear"},
     gutters : {"yes", "no", "unclear"},
     condition : {"good", "average", "poor"},
     confidence : ConfidenceReadings]

IdleLoadCalc ==
    /\ lcInput = [sqft |-> 0, stories |-> 10, windows |-> "average",
                  orientation |-> "mixed", insulation |-> "average",
                  siding |-> "unknown", designDeltaT |-> 40, indoorRH |-> 45,
                  ductsInAtticOrCrawl |-> FALSE]
    /\ lcOut = Null

InitValidate ==
    /\ exterior \in {Null} \cup {Some(a) : a \in ExteriorAnalyses}
    /\ validation = Null
    /\ IdleClarify
    /\ IdleLoadCalc
    /\ IdleBackfill
    /\ IdleEnrich
    /\ IdleIntake
    /\ IdlePage

ValidateExterior ==
    /\ validation = Null
    /\ validation' = Some(validateExteriorAnalysis(exterior))
    /\ UNCHANGED <<loadCalcVars, exterior, clarifyVars, backfillVars, enrichVars,
                   intakeVars, pageVars>>

NextValidate == ValidateExterior

SpecValidate == InitValidate /\ [][NextValidate]_vars

----------------------------------------------------------------------------
(* Specification of the AFUE backfill: repeated application to any record.  *)

\* how many times applyAfueFromModelTable is applied in a row
MaxApplications == 2

Chars_aud == <<" ", "a", "u", "d", "2", "b", "0", "8", "0", "a", "9", "v", "3", "v", "b", "a", " ">>

Chars_Gmh == <<"\t", "G", "m", "h", "9", "5", "0", "7", "0", "3", "b", "x">>

Chars_GmhSplit == <<"G", "M", "H", " ", "9", "5", "0", "7", "0", "3", "B", "X">>

Chars_unknown == <<"u", "n", "k", "n", "o", "w", "n">>

ModelNumbers ==
    {JsChars(cs) : cs \in {KeyTrane, KeyGoodman, Chars_aud, Chars_Gmh,
                           Chars_GmhSplit, Chars_unknown, <<>>, <<" ", " ">>}}
    \cup {NullChars, UndefinedChars}

AfueReadings == {JsNull, JsUndefined, JsNum(0), JsNum(80), JsNum(95)}

AfueSources ==
    {JsNull, JsUndefined, JsStr(""), JsStr("unknown"), JsStr("label"),
     JsStr("inferred"), JsStr("model_lookup")}

VentTypes == {JsStr("metal_flue"), JsStr("pvc"), JsNull}

EquipmentAnalyses ==
    [equipmentType : {"furnace"}, manufacturer : {"Trane"},
     modelNumber : ModelNumbers, serialNumber : {"123745N3G1G"},
     nominalTonnage : {JsNull}, inputBTUH : {JsNum(80000)},
     outputBTUH : {JsNull}, seer : {JsNull}, seer2 : {JsNull},
     hspf : {JsNull}, hspf2 : {JsNull}, afue : AfueReadings,
     refrigerant : {JsNull}, heatStripKW : {JsNull},
     manufactureYear : {JsNum(2012)}, stages : {"two-stage"},
     ventType : VentTypes, afueSource : AfueSources]

InitBackfill ==
    /\ eqHistory \in {<<Null>>} \cup {<<Some(e)>> : e \in EquipmentAnalyses}
    /\ IdleLoadCalc
    /\ IdleValidator
    /\ IdleClarify
    /\ IdleEnrich
    /\ IdleIntake
    /\ IdlePage

ApplyAfue ==
    /\ Len(eqHistory) <= MaxApplications
    /\ eqHistory' = Append(eqHistory, applyAfueFromModelTable(eqHistory[Len(eqHistory)]))
    /\ UNCHANGED <<loadCalcVars, validatorVars, clarifyVars, enrichVars, intakeVars, pageVars>>

NextBackfill == ApplyAfue

SpecBackfill == InitBackfill /\ [][NextBackfill]_vars

----------------------------------------------------------------------------
(* Specification of the enrichment steps of the intake handler: backfill,   *)
(* then warranty, then flags, on any equipment record in any year.          *)

CurrentYears == {2025, 2026}

ManufactureYears ==
    {JsNull, JsUndefined, JsNum(0), JsNum(1970), JsNum(2012), JsNum(2014),
     JsNum(2015), JsNum(2016), JsNum(2030)}

EnrichVentTypes ==
    {JsStr("metal_flue"), JsStr("pvc"), JsStr("mixed"), JsStr("unknown"), JsNull,
     JsUndefined}

EnrichAfues == {JsNull, JsUndefined, JsNum(80), JsNum(89), JsNum(90), JsNum(95)}

EnrichEquipment ==
    [equipmentType : {"furnace"}, manufacturer : {"Trane"},
     modelNumber : {JsChars(KeyTrane), JsChars(Chars_Gmh), JsChars(Chars_unknown)},
     serialNumber : {"123745N3G1G"},
     nominalTonnage : {JsNull}, inputBTUH : {JsNum(80000)},
     outputBTUH : {JsNull}, seer : {JsNull}, seer2 : {JsNull},
     hspf : {JsNull}, hspf2 : {JsNull}, afue : EnrichAfues,
     refrigerant : {JsNull}, heatStripKW : {JsNull},
     manufactureYear : ManufactureYears, stages : {"two-stage"},
     ventType : EnrichVentTypes, afueSource : {JsStr("unknown"), JsStr("label")}]

InitEnrich ==
    /\ currentYear \in CurrentYears
    /\ enPc = "parsed"
    /\ enEquipment \in {Null} \cup {Some(e) : e \in EnrichEquipment}
    /\ enWarranty = Null
    /\ enFlags = Null
    /\ IdleLoadCalc
    /\ IdleValidator
    /\ IdleClarify
    /\ IdleBackfill
    /\ IdleIntake
    /\ IdlePage

\* equipmentAnalysis = applyAfueFromModelTable(equipmentAnalysis)
EnrichBackfill ==
    /\ enPc = "parsed"
    /\ enEquipment' = applyAfueFromModelTable(enEquipment)
    /\ enPc' = "backfilled"
    /\ UNCHANGED <<loadCalcVars, validatorVars, clarifyVars, backfillVars, intakeVars, pageVars,
                   currentYear,
                   enWarranty, enFlags>>

\* const warranty = computeWarrantyInfo(equipmentAnalysis)
EnrichWarranty ==
    /\ enPc = "backfilled"
    /\ enWarranty' = Some(computeWarrantyInfo(enEquipment, currentYear))
    /\ enPc' = "warranty"
    /\ UNCHANGED <<loadCalcVars, validatorVars, clarifyVars, backfillVars, intakeVars, pageVars,
                   currentYear,
                   enEquipment, enFlags>>

\* const equipmentFlags = analyzeEquipmentFlags(equipmentAnalysis)
EnrichFlags ==
    /\ enPc = "warranty"
    /\ enFlags' = analyzeEquipmentFlags(enEquipment)
    /\ enPc' = "done"
    /\ UNCHANGED <<loadCalcVars, validatorVars, clarifyVars, backfillVars, intakeVars, pageVars,
                   currentYear,
                   enEquipment, enWarranty>>

NextEnrich == EnrichBackfill \/ EnrichWarranty \/ EnrichFlags

SpecEnrich == InitEnrich /\ [][NextEnrich]_vars

----------------------------------------------------------------------------
(* The intake handler POST (src/app/api/intake/route.ts).                   *)
(*                                                                          *)
(* A property of an object is <<>> when the object has no such key (reading *)
(* it gives undefined) and <<v>> when it has, v being the value (an option  *)
(* again where the value may be null).                                      *)

Undefined == <<>>
Defined(v) == <<v>>

JsBool(b) == [kind |-> "boolean", num |-> IF b THEN 1 ELSE 0, str |-> ""]

\* What a vision call returns: no output text at all, or a text that
\* JSON.parse rejects, or that parses to a value of some JSON kind; for an
\* object, fields holds its properties (JsUndefined for a missing one).
NoOutputText == [text |-> "none", kind |-> "", fields |-> <<>>]
MalformedText == [text |-> "malformed", kind |-> "", fields |-> <<>>]
JsonText(kind) == [text |-> "json", kind |-> kind, fields |-> <<>>]
ObjectText(fields) == [text |-> "json", kind |-> "object", fields |-> <<fields>>]

\* exteriorOutput?.content && exteriorOutput.content[0]?.type === "output_text"
HasOutputText(output) == output.text /= "none"

\* JSON.parse(text) throws
ParseThrows(output) == output.text = "malformed"

\* parsed && typeof parsed === "object": null is falsy, an array is an object
IsObjectValue(output) == output.kind \in {"object", "array"}

\* parsed.<name>: an array has none of the properties read
ParsedField(output, name, missing) ==
    IF output.kind = "object" THEN output.fields[1][name] ELSE missing

\* v ?? d for a string-valued property
StrOr(v, d) == IF IsNullish(v) THEN d ELSE v.str

\* the exterior record built from the parsed value
exteriorFromParsed(output) ==
    [stories    |-> IF IsNullish(ParsedField(output, "stories", JsUndefined))
                    THEN JsStr("unknown")
                    ELSE ParsedField(output, "stories", JsUndefined),
     siding     |-> StrOr(ParsedField(output, "siding", JsUndefined), "unknown"),
     windows    |-> StrOr(ParsedField(output, "windows", JsUndefined), "unknown"),
     gutters    |-> StrOr(ParsedField(output, "gutters", JsUndefined), "unclear"),
     condition  |-> StrOr(ParsedField(output, "condition", JsUndefined), "average"),
     confidence |-> IF IsNullish(ParsedField(output, "confidence", JsUndefined))
                    THEN Null
                    ELSE Some(ParsedField(output, "confidence", JsUndefined).num)]

\* let exteriorAnalysis = null, then the parse inside try/catch
parseExterior(output) ==
    IF ~HasOutputText(output) THEN Null
    ELSE IF ParseThrows(output) THEN Null
    ELSE IF IsObjectValue(output) THEN Some(exteriorFromParsed(output))
    ELSE Null

\* v ?? null
OrNull(v) == IF IsNullish(v) THEN JsNull ELSE v

\* v ?? "unknown"
OrUnknown(v) == IF IsNullish(v) THEN JsStr("unknown") ELSE v

\* a parsed value that is no object (an array) has none of the properties
NoEquipmentFields ==
    [equipmentType |-> "furnace", manufacturer |-> "unknown",
     modelNumber |-> UndefinedChars, serialNumber |-> "unknown",
     nominalTonnage |-> JsUndefined, inputBTUH |-> JsUndefined,
     outputBTUH |-> JsUndefined, seer |-> JsUndefined, seer2 |-> JsUndefined,
     hspf |-> JsUndefined, hspf2 |-> JsUndefined, afue |-> JsUndefined,
     refrigerant |-> JsUndefined, heatStripKW |-> JsUndefined,
     manufactureYear |-> JsUndefined, stages |-> "unknown",
     ventType |-> JsUndefined, afueSource |-> JsUndefined]

\* the equipment record built from the parsed value
equipmentFromParsed(output) ==
    LET p == IF output.kind = "object" THEN output.fields[1] ELSE NoEquipmentFields
    IN  [equipmentType   |-> p.equipmentType,
         manufacturer    |-> p.manufacturer,
         modelNumber     |-> IF p.modelNumber.kind = "string" THEN p.modelNumber
                             ELSE JsChars(<<"u", "n", "k", "n", "o", "w", "n">>),
         serialNumber    |-> p.serialNumber,
         nominalTonnage  |-> OrNull(p.nominalTonnage),
         inputBTUH       |-> OrNull(p.inputBTUH),
         outputBTUH      |-> OrNull(p.outputBTUH),
         seer            |-> OrNull(p.seer),
         seer2           |-> OrNull(p.seer2),
         hspf            |-> OrNull(p.hspf),
         hspf2           |-> OrNull(p.hspf2),
         afue            |-> OrNull(p.afue),
         refrigerant     |-> OrNull(p.refrigerant),
         heatStripKW     |-> OrNull(p.heatStripKW),
         manufactureYear |-> OrNull(p.manufactureYear),
         stages          |-> p.stages,
         ventType        |-> OrUnknown(p.ventType),
         afueSource      |-> OrUnknown(p.afueSource)]

\* the equipment model is asked whatever the number of photos
HasEquipmentPhotos_always(form) == form.equipmentPhotos >= 0

\* equipmentPhotos.length > 0
HasEquipmentPhotos(form) == form.equipmentPhotos > 0

\* let equipmentAnalysis = null, then the parse inside try/catch
parseEquipment(form, output) ==
    IF ~HasEquipmentPhotos(form) THEN Null
    ELSE IF ~HasOutputText(output) THEN Null
    ELSE IF ParseThrows(output) THEN Null
    ELSE IF IsObjectValue(output) THEN Some(equipmentFromParsed(output))
    ELSE Null

\* !address || exteriorPhotos.length === 0
MissingRequired(form) == form.address = "" \/ form.exteriorPhotos = 0

EarlyMessage ==
    "Intake received, but at least one exterior photo and the address are required."

ClarifyMessage ==
    "AI analysis complete, but some exterior details need clarification."

CompleteMessage == "AI analysis complete."

\* the early return: data holds the address and the two counts only
earlyResponse(form) ==
    [status |-> 200, ok |-> TRUE, message |-> EarlyMessage,
     data |-> [address            |-> form.address,
               photoCountExterior |-> form.exteriorPhotos,
               photoCountEquipment |-> form.equipmentPhotos,
               exteriorAnalysis   |-> Undefined,
               exteriorValidation |-> Undefined,
               equipmentAnalysis  |-> Undefined,
               warranty           |-> Undefined,
               equipmentFlags     |-> Undefined]]

\* the final return, from the exterior record and the backfilled equipment
fullResponse(form, exteriorAnalysis, equipmentAnalysis, year) ==
    [status |-> 200, ok |-> TRUE,
     message |-> IF validateExteriorAnalysis(exteriorAnalysis).needsClarification
                 THEN ClarifyMessage ELSE CompleteMessage,
     data |-> [address            |-> form.address,
               photoCountExterior |-> form.exteriorPhotos,
               photoCountEquipment |-> form.equipmentPhotos,
               exteriorAnalysis   |-> Defined(exteriorAnalysis),
               exteriorValidation |-> Defined(validateExteriorAnalysis(exteriorAnalysis)),
               equipmentAnalysis  |-> Defined(equipmentAnalysis),
               warranty           |-> Defined(computeWarrantyInfo(equipmentAnalysis, year)),
               equipmentFlags     |-> Defined(analyzeEquipmentFlags(equipmentAnalysis))]]

\* the flags taken from the parsed record, before the backfill
POST_flagsBeforeBackfill(form, exteriorOutput, equipmentOutput, year) ==
    IF MissingRequired(form) THEN earlyResponse(form)
    ELSE [fullResponse(form, parseExterior(exteriorOutput),
                       applyAfueFromModelTable(parseEquipment(form, equipmentOutput)),
                       year)
            EXCEPT !.data.equipmentFlags =
                Defined(analyzeEquipmentFlags(parseEquipment(form, equipmentOutput)))]

\* the response of one request, given what the two vision calls return
POST(form, exteriorOutput, equipmentOutput, year) ==
    IF MissingRequired(form) THEN earlyResponse(form)
    ELSE fullResponse(form, parseExterior(exteriorOutput),
                      applyAfueFromModelTable(parseEquipment(form, equipmentOutput)),
                      year)

\* a vision call rejected: the handler throws and the framework answers 500
failedResponse ==
    [status |-> 500, ok |-> FALSE, message |-> "",
     data |-> [address |-> "", photoCountExterior |-> 0, photoCountEquipment |-> 0,
               exteriorAnalysis |-> Undefined, exteriorValidation |-> Undefined,
               equipmentAnalysis |-> Undefined, warranty |-> Undefined,
               equipmentFlags |-> Undefined]]

----------------------------------------------------------------------------
(* Specification of the intake handler: one request, any vision outputs.    *)

StreetAddress == "7320 45th Ave NE, Seattle, WA 98115"

FormDatas ==
    [address : {"", StreetAddress}, exteriorPhotos : 0 .. 1,
     equipmentPhotos : 0 .. 1]

\* the properties of a parsed exterior object
ExteriorFields ==
    [stories : {JsNum(20), JsStr("unknown"), JsNull, JsUndefined, JsBool(TRUE)},
     siding : {JsStr("vinyl"), JsUndefined},
     windows : {JsStr("many"), JsStr(""), JsNull},
     gutters : {JsStr("yes"), JsUndefined},
     condition : {JsStr("good"), JsNull},
     confidence : {JsNum(90), JsNum(74), JsNull, JsUndefined}]

JsonKinds == {"null", "number", "string", "boolean", "array"}

ExteriorOutputs ==
    {NoOutputText, MalformedText} \cup {JsonText(k) : k \in JsonKinds}
    \cup {ObjectText(f) : f \in ExteriorFields}

\* the properties of a parsed equipment object
EquipmentFields ==
    [equipmentType : {"furnace"}, manufacturer : {"Goodman"},
     modelNumber : {JsChars(Chars_Gmh), JsChars(Chars_aud), UndefinedChars},
     serialNumber : {"123745N3G1G"},
     nominalTonnage : {JsNull}, inputBTUH : {JsNum(80000)},
     outputBTUH : {JsNull}, seer : {JsNull}, seer2 : {JsUndefined},
     hspf : {JsNull}, hspf2 : {JsNull}, afue : {JsNull},
     refrigerant : {JsNull}, heatStripKW : {JsNull},
     manufactureYear : {JsUndefined, JsNum(2012)}, stages : {"two-stage"},
     ventType : {JsStr("metal_flue"), JsStr("pvc"), JsUndefined},
     afueSource : {JsUndefined}]

EquipmentOutputs ==
    {NoOutputText, MalformedText, JsonText("null"), JsonText("array")}
    \cup {ObjectText(f) : f \in EquipmentFields}

IdleEnrichIn(year) ==
    /\ currentYear = year
    /\ enPc = "idle"
    /\ enEquipment = Null
    /\ enWarranty = Null
    /\ enFlags = Null

InitIntake ==
    /\ inRequest \in {Some(f) : f \in FormDatas}
    /\ inExteriorOutput \in {Some(o) : o \in ExteriorOutputs}
    /\ inEquipmentOutput \in {Some(o) : o \in EquipmentOutputs}
    /\ inResponse = Null
    /\ \E year \in CurrentYears : IdleEnrichIn(year)
    /\ IdleLoadCalc
    /\ IdleValidator
    /\ IdleClarify
    /\ IdleBackfill
    /\ IdlePage

\* the handler serves the request
Post ==
    /\ inRequest /= Null
    /\ inResponse = Null
    /\ inResponse' = Some(POST(inRequest[1], inExteriorOutput[1],
                               inEquipmentOutput[1], currentYear))
    /\ UNCHANGED <<loadCalcVars, validatorVars, clarifyVars, backfillVars, enrichVars,
                   inRequest, inExteriorOutput, inEquipmentOutput, pageVars>>

NextIntake == Post

SpecIntake == InitIntake /\ [][NextIntake]_vars

----------------------------------------------------------------------------
(* HomePage (src/app/page.tsx) and LoadCalcPanel                            *)
(* (src/components/LoadCalcPanel.tsx).                                      *)

DigitChars == <<"0", "1", "2", "3", "4", "5", "6", "7", "8", "9">>

IsDigit(c) == \E i \in DOMAIN DigitChars : DigitChars[i] = c

DigitValue(c) == (CHOOSE i \in DOMAIN DigitChars : DigitChars[i] = c) - 1

RECURSIVE DigitsValue(_, _)
DigitsValue(cs, acc) ==
    IF cs = <<>> THEN acc
    ELSE DigitsValue(Tail(cs), acc * 10 + DigitValue(Head(cs)))

AllDigits(cs) == cs /= <<>> /\ \A i \in DOMAIN cs : IsDigit(cs[i])

\* Number(sqft) for an entry of digits, letters and a minus sign: the empty
\* string is 0, anything that is no decimal integer is NaN
NumberOf(cs) ==
    IF cs = <<>> THEN [nan |-> FALSE, value |-> 0]
    ELSE IF AllDigits(cs) THEN [nan |-> FALSE, value |-> DigitsValue(cs, 0)]
    ELSE IF Head(cs) = "-" /\ AllDigits(Tail(cs))
         THEN [nan |-> FALSE, value |-> 0 - DigitsValue(Tail(cs), 0)]
    ELSE [nan |-> TRUE, value |-> 0]

\* only NaN refused: zero and negative numbers go on to runLoadCalc
InvalidEntry_nanOnly(sqftNum) == sqftNum.nan

\* !sqftNum || sqftNum <= 0
InvalidEntry(sqftNum) == sqftNum.nan \/ sqftNum.value = 0 \/ sqftNum.value <= 0

\* the input handleRunCalc builds from the panel's state; orientation,
\* insulation and the ducts checkbox are at their initial values
PanelInput(sqftNum) ==
    [sqft |-> sqftNum.value, stories |-> panelStories, windows |-> panelWindows,
     orientation |-> "mixed", insulation |-> "average", siding |-> panelSiding,
     designDeltaT |-> 40, indoorRH |-> 45, ductsInAtticOrCrawl |-> FALSE]

\* const jobSummary = analysis ? { ... } : null
jobSummary(analysis, loadCalcResult) ==
    IF analysis = Null THEN Null
    ELSE Some([address        |-> Defined(analysis[1].address),
               exterior       |-> analysis[1].exteriorAnalysis,
               equipment      |-> analysis[1].equipmentAnalysis,
               warranty       |-> analysis[1].warranty,
               equipmentFlags |-> analysis[1].equipmentFlags,
               loadCalc       |-> Defined(loadCalcResult)])

\* the render reads analysis.exteriorValidation.needsClarification and
\* analysis.warranty.manufactureYear: a TypeError when either is undefined
RenderThrows(analysis) ==
    /\ analysis /= Null
    /\ \/ analysis[1].exteriorValidation = Undefined
       \/ analysis[1].warranty = Undefined

UploadError == "Something went wrong while sending the intake."

----------------------------------------------------------------------------
(* Specification of the page: the user edits the form and the panel,        *)
(* submits, the handler answers, the page takes the answer.                 *)

\* what the vision model may return for the photos of a submit
PageExteriorOutputs ==
    {MalformedText,
     ObjectText([stories |-> JsNum(20), siding |-> JsStr("vinyl"),
                 windows |-> JsStr("many"), gutters |-> JsStr("yes"),
                 condition |-> JsStr("good"), confidence |-> JsNum(90)]),
     ObjectText([stories |-> JsStr("unknown"), siding |-> JsStr("vinyl"),
                 windows |-> JsStr("many"), gutters |-> JsStr("yes"),
                 condition |-> JsStr("good"), confidence |-> JsNum(74)])}

PageEquipmentOutputs ==
    {NoOutputText,
     ObjectText([equipmentType |-> "furnace", manufacturer |-> "Goodman",
                 modelNumber |-> JsChars(Chars_Gmh), serialNumber |-> "123745N3G1G",
                 nominalTonnage |-> JsNull, inputBTUH |-> JsNum(80000),
                 outputBTUH |-> JsNull, seer |-> JsNull, seer2 |-> JsUndefined,
                 hspf |-> JsNull, hspf2 |-> JsNull, afue |-> JsNull,
                 refrigerant |-> JsNull, heatStripKW |-> JsNull,
                 manufactureYear |-> JsNum(2012), stages |-> "two-stage",
                 ventType |-> JsStr("metal_flue"), afueSource |-> JsUndefined])}

SqftEntries ==
    {<<>>, <<"a", "b", "c">>, <<"0">>, <<"-", "5">>, <<"2", "2", "0", "0">>}

InitPage ==
    /\ IdlePage
    /\ IdleIntake
    /\ IdleEnrichIn(2025)
    /\ IdleLoadCalc
    /\ IdleValidator
    /\ IdleClarify
    /\ IdleBackfill

\* the stories the user selects in the panel; the other selects and the
\* checkbox of the panel are left as they are when it mounts
StoriesChoices == {10, 20}

\* onChange of the address input
SetAddress ==
    /\ ~pgCrashed
    /\ \E a \in {"", StreetAddress} : pgAddress' = a
    /\ UNCHANGED <<loadCalcVars, validatorVars, clarifyVars, backfillVars, enrichVars,
                   intakeVars, pgExteriorPhotos, pgEquipmentPhotos, pgIsLoading,
                   pgRawResponse, pgAnalysis, pgLoadCalcResult, pgError,
                   pgCrashed, panelSqft, panelSelections, panelResult,
                   panelOutcome>>

\* onChange of the exterior file input
SetExteriorPhotos ==
    /\ ~pgCrashed
    /\ \E n \in 0 .. 1 : pgExteriorPhotos' = n
    /\ UNCHANGED <<loadCalcVars, validatorVars, clarifyVars, backfillVars, enrichVars,
                   intakeVars, pgAddress, pgEquipmentPhotos, pgIsLoading,
                   pgRawResponse, pgAnalysis, pgLoadCalcResult, pgError,
                   pgCrashed, panelSqft, panelSelections, panelResult,
                   panelOutcome>>

\* onChange of the equipment file input
SetEquipmentPhotos ==
    /\ ~pgCrashed
    /\ \E n \in 0 .. 1 : pgEquipmentPhotos' = n
    /\ UNCHANGED <<loadCalcVars, validatorVars, clarifyVars, backfillVars, enrichVars,
                   intakeVars, pgAddress, pgExteriorPhotos, pgIsLoading,
                   pgRawResponse, pgAnalysis, pgLoadCalcResult, pgError,
                   pgCrashed, panelSqft, panelSelections, panelResult,
                   panelOutcome>>

\* handleSubmit up to the fetch: the address input is required and the
\* button is disabled while isLoading
Submit ==
    /\ ~pgCrashed
    /\ ~pgIsLoading
    /\ pgAddress /= ""
    /\ pgError' = Null
    /\ pgIsLoading' = TRUE
    /\ pgRawResponse' = Null
    /\ pgAnalysis' = Null
    /\ pgLoadCalcResult' = Null
    /\ inRequest' = Some([address |-> pgAddress, exteriorPhotos |-> pgExteriorPhotos,
                          equipmentPhotos |-> pgEquipmentPhotos])
    /\ \E o \in PageExteriorOutputs : inExteriorOutput' = Some(o)
    /\ \E o \in PageEquipmentOutputs : inEquipmentOutput' = Some(o)
    /\ inResponse' = Null
    /\ UNCHANGED <<loadCalcVars, validatorVars, clarifyVars, backfillVars, enrichVars,
                   pgAddress, pgExteriorPhotos, pgEquipmentPhotos, pgCrashed,
                   panelSqft, panelSelections, panelResult, panelOutcome>>

\* a vision call of the handler rejects
PostFails ==
    /\ inRequest /= Null
    /\ inResponse = Null
    /\ ~MissingRequired(inRequest[1])
    /\ inResponse' = Some(failedResponse)
    /\ UNCHANGED <<loadCalcVars, validatorVars, clarifyVars, backfillVars, enrichVars,
                   inRequest, inExteriorOutput, inEquipmentOutput, pageVars>>

\* the analysis the page holds after the response
analysisAfter(res) == IF res.status = 200 /\ res.ok THEN Some(res.data) ELSE Null

\* the error the page holds after the response
errorAfter(res) ==
    IF res.status /= 200 THEN Some(UploadError)
    ELSE IF res.ok THEN Null
    ELSE Some(IF res.message = "" THEN "Unknown error from API." ELSE res.message)

\* handleSubmit from the resolved fetch to the end, and the render after it
Receive ==
    /\ pgIsLoading
    /\ inResponse /= Null
    /\ pgRawResponse' = IF inResponse[1].status = 200 THEN inResponse ELSE Null
    /\ pgAnalysis' = analysisAfter(inResponse[1])
    /\ pgError' = errorAfter(inResponse[1])
    /\ pgIsLoading' = FALSE
    /\ pgCrashed' = RenderThrows(analysisAfter(inResponse[1]))
    /\ inRequest' = Null
    /\ inExteriorOutput' = Null
    /\ inEquipmentOutput' = Null
    /\ inResponse' = Null
    /\ UNCHANGED <<loadCalcVars, validatorVars, clarifyVars, backfillVars, enrichVars,
                   pgAddress, pgExteriorPhotos, pgEquipmentPhotos,
                   pgLoadCalcResult, panelSqft, panelSelections, panelResult,
                   panelOutcome>>

\* onChange of the panel's square-footage input
SetSqft ==
    /\ ~pgCrashed
    /\ \E entry \in SqftEntries : panelSqft' = entry
    /\ UNCHANGED <<loadCalcVars, validatorVars, clarifyVars, backfillVars, enrichVars,
                   intakeVars, pgAddress, pgExteriorPhotos, pgEquipmentPhotos,
                   pgIsLoading, pgRawResponse, pgAnalysis, pgLoadCalcResult,
                   pgError, pgCrashed, panelSelections, panelResult,
                   panelOutcome>>

\* onChange of the panel's stories select
SetStories ==
    /\ ~pgCrashed
    /\ \E s \in StoriesChoices : panelStories' = s
    /\ UNCHANGED <<loadCalcVars, validatorVars, clarifyVars, backfillVars, enrichVars,
                   intakeVars, pgAddress, pgExteriorPhotos, pgEquipmentPhotos,
                   pgIsLoading, pgRawResponse, pgAnalysis, pgLoadCalcResult,
                   pgError, pgCrashed, panelSqft, panelWindows, panelSiding,
                   panelResult, panelOutcome>>

\* the end of handleRunCalc: runLoadCalc threw, or setResult(calc) and
\* onResult(calc), which is setLoadCalcResult of the page
AfterRunLoadCalc(calc) ==
    IF calc.threw
    THEN /\ panelOutcome' = "error"
         /\ UNCHANGED <<panelResult, pgLoadCalcResult>>
    ELSE /\ panelOutcome' = "result"
         /\ panelResult' = calc.result
         /\ pgLoadCalcResult' = calc.result

\* handleRunCalc of the panel, with onResult = setLoadCalcResult
HandleRunCalc ==
    /\ ~pgCrashed
    /\ IF InvalidEntry(NumberOf(panelSqft))
       THEN /\ panelOutcome' = "alert"
            /\ UNCHANGED <<panelResult, pgLoadCalcResult>>
       ELSE AfterRunLoadCalc(runLoadCalc(PanelInput(NumberOf(panelSqft))))
    /\ UNCHANGED <<loadCalcVars, validatorVars, clarifyVars, backfillVars, enrichVars,
                   intakeVars, pgAddress, pgExteriorPhotos, pgEquipmentPhotos,
                   pgIsLoading, pgRawResponse, pgAnalysis, pgError, pgCrashed,
                   panelSqft, panelSelections>>

NextPage ==
    \/ SetAddress
    \/ SetExteriorPhotos
    \/ SetEquipmentPhotos
    \/ Submit
    \/ Post
    \/ PostFails
    \/ Receive
    \/ SetSqft
    \/ SetStories
    \/ HandleRunCalc

SpecPage == InitPage /\ [][NextPage]_vars

----------------------------------------------------------------------------
(* Properties of runLoadCalc, checked under SpecLoadCalc.                   *)

Ran == lcOut /= Null

Returned == Ran /\ ~lcOut[1].threw

Result == lcOut[1].result[1]

\* the acceptance input of the testable properties
AcceptanceInput ==
    [sqft |-> 2200, stories |-> 20, windows |-> "many", orientation |-> "south",
     insulation |-> "average", siding |-> "vinyl", designDeltaT |-> 40,
     indoorRH |-> 45, ductsInAtticOrCrawl |-> TRUE]

\* the input behind the README's JobSummary example
ReadmeInput ==
    [sqft |-> 2200, stories |-> 10, windows |-> "average", orientation |-> "mixed",
     insulation |-> "average", siding |-> "mixed", designDeltaT |-> 40,
     indoorRH |-> 45, ductsInAtticOrCrawl |-> TRUE]

\* the per-square-foot sensible rate, rounded to hundredths of a BTU/h
RateHundredths(input) == MathRound(Mul(sensiblePerSqFt(input), Num(100)))

\* C1: for every valid input the returned totalBTUH equals the returned
\* sensibleBTUH plus the returned latentBTUH exactly.
C1_TotalIsSumOfRounded ==
    Returned => Result.totalBTUH = Result.sensibleBTUH + Result.latentBTUH

\* C2 as stated: for the acceptance input the rate is about 18.71 BTU/h per
\* square foot and sensibleBTUH is about 41,150 (within 50 BTU/h).
C2_AcceptanceAbout41150 ==
    (Returned /\ lcInput = AcceptanceInput) =>
        /\ RateHundredths(lcInput) = 1871
        /\ Result.sensibleBTUH >= 41150 - 50
        /\ Result.sensibleBTUH <= 41150 + 50

\* C2 amended: for the acceptance input the factor chain
\* 13.33 x 1.0 x 1.15 x 1.10 x 1.08 x 1.0 x 1.10 gives a rate of 20.04 BTU/h
\* per square foot (to two decimals) and sensibleBTUH = 44083.
C2_AcceptanceSensible ==
    (Returned /\ lcInput = AcceptanceInput) =>
        /\ RateHundredths(lcInput) = 2004
        /\ Result.sensibleBTUH = 44083

C2_Witness == Returned /\ lcInput = AcceptanceInput

\* C3: for the README example input, with any siding of factor 1.00, the
\* call returns sensibleBTUH 32267, latentBTUH 6453, totalBTUH 38720,
\* recommendedTonnage 3.25 and exactly the duct note then the summary note.
C3_ReadmeExample ==
    (Ran /\ \E sd \in {"vinyl", "wood", "fiber cement", "mixed", "unknown"} :
                lcInput = [ReadmeInput EXCEPT !.siding = sd]) =>
        /\ ~lcOut[1].threw
        /\ Result.sensibleBTUH = 32267
        /\ Result.latentBTUH = 6453
        /\ Result.totalBTUH = 38720
        /\ Result.recommendedTonnage = 325
        /\ Result.notes =
             << [text |-> "Ducts in unconditioned space: 10% penalty added.",
                 btuh |-> 0, tons |-> <<>>],
                [text |-> "Based on the inputs, total design load is ~{btuh} BTU/h, which is roughly {tons} tons.",
                 btuh |-> 38720, tons |-> <<3, 25>>] >>

C3_Witness == Returned /\ lcInput = ReadmeInput /\ Len(Result.notes) = 2

\* C4: the call throws for sqft = 0 and every negative sqft, then returns no
\* result and has produced no notes; for every sqft > 0 it returns a result
\* and does not throw, whatever the other fields hold.
C4_SqftGuard ==
    Ran =>
        /\ lcInput.sqft <= 0 =>
              /\ lcOut[1].threw
              /\ lcOut[1].result = Null
              /\ lcOut[1].notes = <<>>
        /\ lcInput.sqft > 0 =>
              /\ ~lcOut[1].threw
              /\ lcOut[1].result /= Null

C4_Witness ==
    /\ Ran
    /\ lcInput.sqft = 0
    /\ lcInput.insulation = "poor"
    /\ lcOut[1].threw

\* C5: for every valid input recommendedTonnage is a multiple of 0.25
\* (25 hundredths of a ton).
C5_QuarterTon == Returned => Result.recommendedTonnage % 25 = 0

C5_Witness == Returned /\ Result.recommendedTonnage = 325

----------------------------------------------------------------------------
(* Properties of validateExteriorAnalysis, checked under SpecValidate.      *)

Validated == validation /= Null

Issues == validation[1].issues

\* the positions at which an issue text occurs in the issue list
Positions(issue) == {i \in DOMAIN Issues : Issues[i] = issue}

\* C6: for absent attributes the outcome is exactly the re-upload issue with
\* needsClarification = true; no other check contributes an issue.
C6_AbsentAttributes ==
    (Validated /\ exterior = Null) =>
        /\ Issues = <<ReuploadIssue>>
        /\ validation[1].needsClarification

C6_Witness == Validated /\ exterior = Null

\* a field holding a known value: not "unknown", not empty, not "unclear"
KnownText(t) == t \notin {"unknown", "", "unclear"}

KnownStories(v) ==
    \/ v.kind = "number"
    \/ v.kind = "string" /\ KnownText(v.str)

\* C7: a present record with confidence >= 0.75 and known stories, windows and
\* siding yields no issues and needsClarification = false, whatever gutters
\* and condition hold.
C7_CleanRecordPasses ==
    (/\ Validated
     /\ exterior /= Null
     /\ exterior[1].confidence /= Null
     /\ exterior[1].confidence[1] >= 75
     /\ KnownStories(exterior[1].stories)
     /\ KnownText(exterior[1].windows)
     /\ KnownText(exterior[1].siding)) =>
        /\ Issues = <<>>
        /\ ~validation[1].needsClarification

C7_Witness ==
    /\ Validated
    /\ exterior /= Null
    /\ exterior[1].confidence = Some(75)
    /\ exterior[1].stories = JsNum(15)
    /\ exterior[1].windows = "many"
    /\ exterior[1].siding = "brick"
    /\ exterior[1].gutters = "unclear"
    /\ exterior[1].condition = "poor"
    /\ Issues = <<>>

\* C8: for a present record each of the four checks contributes its issue
\* exactly when it fails, whatever the others do, the issues keep the order
\* confidence, stories, windows, siding, and needsClarification is true
\* exactly when the issue list is non-empty.
C8_IndependentOrderedChecks ==
    (Validated /\ exterior /= Null) =>
        LET a == exterior[1]
            lowConf  == a.confidence = Null \/ a.confidence[1] < 75
            noStory  == a.stories.kind \in {"null", "undefined"}
                        \/ (a.stories.kind = "string" /\ a.stories.str = "unknown")
            noWindow == a.windows \in {"unknown", "", "unclear"}
            noSiding == a.siding \in {"unknown", ""}
            order    == <<LowConfidenceIssue, StoriesIssue, WindowsIssue, SidingIssue>>
        IN  /\ Cardinality(Positions(LowConfidenceIssue)) = (IF lowConf THEN 1 ELSE 0)
            /\ Cardinality(Positions(StoriesIssue)) = (IF noStory THEN 1 ELSE 0)
            /\ Cardinality(Positions(WindowsIssue)) = (IF noWindow THEN 1 ELSE 0)
            /\ Cardinality(Positions(SidingIssue)) = (IF noSiding THEN 1 ELSE 0)
            /\ \A i \in DOMAIN Issues : \E k \in DOMAIN order : Issues[i] = order[k]
            /\ \A j, k \in DOMAIN order :
                  (j < k /\ Positions(order[j]) /= {} /\ Positions(order[k]) /= {}) =>
                      \A p \in Positions(order[j]) : \A q \in Positions(order[k]) : p < q
            /\ validation[1].needsClarification <=> (Issues /= <<>>)

C8_Witness ==
    /\ Validated
    /\ exterior /= Null
    /\ Issues = <<LowConfidenceIssue, StoriesIssue, WindowsIssue, SidingIssue>>

----------------------------------------------------------------------------
(* Properties of applyAfueFromModelTable, checked under SpecBackfill.       *)

\* raw, with surrounding white space dropped and letters upper-cased, is key
SpellingOf(raw, key) ==
    \E i, j \in 1 .. Len(raw) :
        /\ j - i + 1 = Len(key)
        /\ \A k \in 1 .. Len(raw) : (k < i \/ k > j) => raw[k] \in WhiteSpace
        /\ raw[i] \notin WhiteSpace
        /\ raw[j] \notin WhiteSpace
        /\ \A k \in 1 .. Len(key) : ToUpperChar(raw[i + k - 1]) = key[k]

TableKeys == {KeyTrane, KeyGoodman}

\* the table key a model number normalizes to, if any
KeysOf(modelNumber) ==
    IF modelNumber.kind /= "string" THEN {}
    ELSE {key \in TableKeys : SpellingOf(modelNumber.chars, key)}

TabledAfue(key) == IF key = KeyTrane THEN 80 ELSE 95

\* C9: a record whose afue is already set is returned unchanged in every
\* field, even when its model number is in the table, and applying the
\* backfill twice gives the same record as applying it once (also for an
\* absent input).
C9_NoOverwriteIdempotent ==
    /\ \A n \in 2 .. Len(eqHistory) :
          (eqHistory[n - 1] /= Null /\ ~IsNullish(eqHistory[n - 1][1].afue)) =>
              eqHistory[n] = eqHistory[n - 1]
    /\ Len(eqHistory) >= 3 => eqHistory[3] = eqHistory[2]

C9_Witness ==
    /\ Len(eqHistory) = 3
    /\ eqHistory[1] /= Null
    /\ eqHistory[1][1].afue = JsNull
    /\ eqHistory[2][1].afue = JsNum(95)
    /\ eqHistory[3] = eqHistory[2]

\* C10 as stated: a record with null afue whose model number normalizes to a
\* table key comes back with the tabled afue and afueSource "model_lookup";
\* a record whose model number normalizes to no key comes back unchanged.
C10_LookupAlwaysModelLookup ==
    (Len(eqHistory) >= 2 /\ eqHistory[1] /= Null /\ IsNullish(eqHistory[1][1].afue)) =>
        LET before == eqHistory[1][1]
            keys   == KeysOf(before.modelNumber)
        IN  /\ \A key \in keys :
                  /\ eqHistory[2] /= Null
                  /\ eqHistory[2][1].afue = JsNum(TabledAfue(key))
                  /\ eqHistory[2][1].afueSource = JsStr("model_lookup")
            /\ keys = {} => eqHistory[2] = eqHistory[1]

\* C10 amended: on a hit the record comes back with the tabled afue, with
\* afueSource "model_lookup" when the prior afueSource was absent, empty or
\* "unknown" and the prior afueSource otherwise, and with every other field
\* unchanged; on a miss (an empty model number included) it comes back
\* unchanged in every field.
C10_LookupKeepsStrongerSource ==
    (Len(eqHistory) >= 2 /\ eqHistory[1] /= Null /\ IsNullish(eqHistory[1][1].afue)) =>
        LET before == eqHistory[1][1]
            keys   == KeysOf(before.modelNumber)
            weak   == \/ IsNullish(before.afueSource)
                      \/ before.afueSource \in {JsStr(""), JsStr("unknown")}
        IN  /\ \A key \in keys :
                  /\ eqHistory[2] /= Null
                  /\ eqHistory[2][1] =
                       [before EXCEPT
                          !.afue = JsNum(TabledAfue(key)),
                          !.afueSource = IF weak THEN JsStr("model_lookup")
                                         ELSE before.afueSource]
            /\ keys = {} => eqHistory[2] = eqHistory[1]

C10_Witness ==
    /\ Len(eqHistory) >= 2
    /\ eqHistory[1] /= Null
    /\ eqHistory[1][1].afue = JsNull
    /\ eqHistory[1][1].modelNumber = JsChars(Chars_aud)
    /\ eqHistory[1][1].afueSource = JsStr("unknown")
    /\ eqHistory[2][1].afue = JsNum(80)
    /\ eqHistory[2][1].afueSource = JsStr("model_lookup")

----------------------------------------------------------------------------
(* Properties of the enrichment steps, checked under SpecEnrich.            *)

\* C11: for absent equipment or a null manufactureYear the warranty is
\* (null, null, unknown); for every non-null integer manufactureYear y it is
\* (y, currentYear - y, in warranty when that age is <= 10 and out of
\* warranty otherwise).
C11_WarrantyByAge ==
    enWarranty /= Null =>
        LET w == enWarranty[1]
        IN  IF enEquipment = Null \/ IsNullish(enEquipment[1].manufactureYear)
            THEN w = [manufactureYear |-> JsNull, approxAgeYears |-> JsNull,
                      likelyWarrantyStatus |-> "unknown"]
            ELSE LET y == enEquipment[1].manufactureYear.num
                 IN  /\ w.manufactureYear = JsNum(y)
                     /\ w.approxAgeYears = JsNum(currentYear - y)
                     /\ w.likelyWarrantyStatus =
                          (IF currentYear - y <= 10 THEN "likely_in_parts_warranty"
                           ELSE "likely_out_of_warranty")

\* the notes of the flags, once the flags step has run on a present record
FlagNotes == enFlags[1].notes

\* C12: analyzeEquipmentFlags produces at most one note; no record yields
\* both the AFUE/metal-flue mismatch note and the PVC-inference note.
C12_AtMostOneNote ==
    (enPc = "done" /\ enFlags /= Null) =>
        /\ Len(FlagNotes) <= 1
        /\ ~(/\ \E i \in DOMAIN FlagNotes : FlagNotes[i] = MismatchNote
             /\ \E i \in DOMAIN FlagNotes : FlagNotes[i] = PvcNote)

C12_Witness ==
    /\ enPc = "done"
    /\ enFlags /= Null
    /\ FlagNotes = <<MismatchNote>>
    /\ enFlags[1].afueVentMismatch

----------------------------------------------------------------------------
(* Properties of the intake handler, checked under SpecIntake.              *)

\* the handler has answered a request that passed the required-field test
Served == inResponse /= Null /\ ~MissingRequired(inRequest[1])

\* a property of the parsed object has a type its field does not admit
\* (stories: a boolean where a number or a string is expected)
HasWrongType(fields) == fields.stories.kind = "boolean"

\* the text is malformed JSON, or JSON of a non-object value, or an object
\* with a wrongly typed field
WrongShape(output) ==
    \/ output.text = "malformed"
    \/ output.text = "json" /\ output.kind /= "object"
    \/ output.text = "json" /\ output.kind = "object" /\ HasWrongType(output.fields[1])

\* C14: for every exterior text that is malformed JSON or JSON of the wrong
\* shape the handler answers normally, the exterior record is absent (null)
\* and the validation asks for clarification with at least one issue.
C14_WrongShapeIsAbsent ==
    (Served /\ WrongShape(inExteriorOutput[1])) =>
        /\ inResponse[1].status = 200
        /\ inResponse[1].data.exteriorAnalysis = Defined(Null)
        /\ inResponse[1].data.exteriorValidation[1].needsClarification
        /\ Len(inResponse[1].data.exteriorValidation[1].issues) >= 1

----------------------------------------------------------------------------
(* Properties of the page, checked under SpecPage.                          *)

\* the JobSummary the page builds from its state
Summary == jobSummary(pgAnalysis, pgLoadCalcResult)[1]

\* the page holds the analysis of an intake that had no equipment photos
NoEquipmentIntake == pgAnalysis /= Null /\ pgAnalysis[1].photoCountEquipment = 0

\* a nullable property is missing or null
Absent(field) == field = Undefined \/ field = Defined(Null)

UnknownWarranty ==
    [manufactureYear |-> JsNull, approxAgeYears |-> JsNull,
     likelyWarrantyStatus |-> "unknown"]

\* a warranty property is missing or holds no information
NoWarrantyInformation(field) ==
    field = Undefined \/ field = Defined(UnknownWarranty)

C15_FieldsNeverUndefined ==
    pgAnalysis /= Null =>
        /\ Summary.address /= Undefined
        /\ Summary.exterior /= Undefined
        /\ Summary.equipment /= Undefined
        /\ Summary.warranty /= Undefined
        /\ Summary.equipmentFlags /= Undefined
        /\ Summary.loadCalc /= Undefined
        /\ pgAnalysis[1].exteriorValidation /= Undefined
        /\ pgAnalysis[1].warranty /= Undefined
----------------------------------------------------------------------------
(* The notes of runLoadCalc, checked under SpecLoadCalc.                    *)

SummaryText == SummaryNote(0, Null).text

\* the step a note text belongs to: 1 insulation, 2 windows, 3 orientation,
\* 4 stories, 5 duct location, 6 summary, 0 anything else
NoteRank(text) ==
    CASE text \in {"Good insulation: slightly reduced load.",
                   "Poor insulation: increased envelope load."} -> 1
      [] text \in {"Few windows: reduced gain/loss.",
                   "Many windows: increased gain/loss.",
                   "Window amount unknown: assuming average."} -> 2
      [] text \in {"South/West orientation: higher solar gain.",
                   "North orientation: slightly lower solar gain."} -> 3
      [] text = "Multi-story: extra load for stack effect and envelope area." -> 4
      [] text = "Ducts in unconditioned space: 10% penalty added." -> 5
      [] text = SummaryText -> 6
      [] OTHER -> 0

\* the steps whose rule emits a note for this input
EmittingSteps(input) ==
    (IF input.insulation \in {"good", "poor"} THEN {1} ELSE {})
    \cup (IF input.windows \in {"few", "many", "unknown"} THEN {2} ELSE {})
    \cup (IF input.orientation \in {"south", "west", "north"} THEN {3} ELSE {})
    \cup (IF input.stories >= 20 THEN {4} ELSE {})
    \cup (IF input.ductsInAtticOrCrawl THEN {5} ELSE {})
    \cup {6}

\* C16: the notes appear in the order insulation, windows, orientation,
\* stories, duct location, summary, each present exactly when its rule emits
\* one; siding emits none; the summary note is always present and last.
C16_NoteOrder ==
    Returned =>
        LET notes == Result.notes
        IN  /\ \A i, j \in DOMAIN notes :
                 i < j => NoteRank(notes[i].text) < NoteRank(notes[j].text)
            /\ {NoteRank(notes[i].text) : i \in DOMAIN notes} = EmittingSteps(lcInput)
            /\ notes /= <<>>
            /\ notes[Len(notes)].text = SummaryText
            /\ notes[Len(notes)].tons /= Null

C16_Witness ==
    /\ Returned
    /\ lcInput.siding = "brick"
    /\ Len(Result.notes) = 6
    /\ Result.notes[1].text = "Poor insulation: increased envelope load."
    /\ Result.notes[5].text = "Ducts in unconditioned space: 10% penalty added."

----------------------------------------------------------------------------
(* The sensible load, checked under SpecSensible: every combination of the  *)
(* factor inputs at one area.                                               *)

SensibleInputs ==
    [sqft : {2200}, stories : StoriesValues, windows : WindowAmounts,
     orientation : Orientations, insulation : InsulationLevels,
     siding : SidingTypes, designDeltaT : DesignDeltaTs, indoorRH : {45},
     ductsInAtticOrCrawl : BOOLEAN]

InitSensible ==
    /\ lcInput \in SensibleInputs
    /\ lcOut = Null
    /\ IdleValidator
    /\ IdleClarify
    /\ IdleBackfill
    /\ IdleEnrich
    /\ IdleIntake
    /\ IdlePage

SpecSensible == InitSensible /\ [][NextLoadCalc]_vars

\* the factor table, in the order insulation, windows, orientation, stories,
\* siding, ducts
TableFactors(input) ==
    << CASE input.insulation = "poor" -> Lit_1_20
         [] input.insulation = "average" -> One
         [] input.insulation = "good" -> Lit_0_85,
       CASE input.windows = "few" -> Lit_0_90
         [] input.windows = "many" -> Lit_1_15
         [] input.windows \in {"average", "unknown"} -> One,
       CASE input.orientation \in {"south", "west"} -> Lit_1_10
         [] input.orientation = "north" -> Lit_0_95
         [] input.orientation = "east" -> Lit_1_05
         [] input.orientation \in {"mixed", "unknown"} -> One,
       IF input.stories >= 20 THEN Lit_1_08 ELSE One,
       CASE input.siding = "brick" -> Lit_0_97
         [] input.siding = "stucco" -> Lit_0_99
         [] OTHER -> One,
       IF input.ductsInAtticOrCrawl THEN Lit_1_10 ELSE One >>

\* ((x * fs[1]) * fs[2]) * ...
RECURSIVE MulLeft(_, _)
MulLeft(x, fs) == IF fs = <<>> THEN x ELSE MulLeft(Mul(x, Head(fs)), Tail(fs))

RECURSIVE Reverse(_)
Reverse(fs) == IF fs = <<>> THEN <<>> ELSE Append(Reverse(Tail(fs)), Head(fs))

\* 10 x (designDeltaT / 30) x fIns x fWin x fOri x fSto x fSid x fDuct x sqft,
\* multiplied from left to right
ProductLeftToRight(input) ==
    MulLeft(Mul(Num(10), Div(Num(input.designDeltaT), 30)),
            Append(TableFactors(input), Num(input.sqft)))

\* the same multiplicands taken from right to left
ProductRightToLeft(input) ==
    MulLeft(Num(input.sqft),
            Reverse(TableFactors(input))
            \o <<Div(Num(input.designDeltaT), 30), Num(10)>>)

\* C17 as stated: sensibleBTUH is the rounded product of the base rate, the
\* six table factors and the area, in whatever order they are multiplied.
C17_SensibleAnyOrder ==
    Returned =>
        /\ Result.sensibleBTUH = MathRound(ProductLeftToRight(lcInput))
        /\ Result.sensibleBTUH = MathRound(ProductRightToLeft(lcInput))

\* C17, amended: sensibleBTUH is the rounded product of the base rate, the
\* six table factors and the area multiplied from left to right (stories
\* below 2 leave both the factor and the notes alone).
C17_SensibleLeftToRight ==
    Returned =>
        /\ Result.sensibleBTUH = MathRound(ProductLeftToRight(lcInput))
        /\ lcInput.stories < 20 =>
               \A i \in DOMAIN Result.notes : NoteRank(Result.notes[i].text) /= 4

C17_Witness ==
    /\ Returned
    /\ lcInput = [sqft |-> 2200, stories |-> 15, windows |-> "many",
                  orientation |-> "south", insulation |-> "poor",
                  siding |-> "brick", designDeltaT |-> 30, indoorRH |-> 45,
                  ductsInAtticOrCrawl |-> FALSE]
    /\ Result.sensibleBTUH = 32394

----------------------------------------------------------------------------
(* The latent ratio, checked under SpecLatentRatio: two inputs at every     *)
(* whole indoor humidity.                                                   *)

MaxIndoorRH == 100

LatentRatioInputs ==
    {[base EXCEPT !.indoorRH = rh] :
        base \in {AcceptanceInput, ReadmeInput}, rh \in 0 .. MaxIndoorRH}

InitLatentRatio ==
    /\ lcInput \in LatentRatioInputs
    /\ lcOut = Null
    /\ IdleValidator
    /\ IdleClarify
    /\ IdleBackfill
    /\ IdleEnrich
    /\ IdleIntake
    /\ IdlePage

SpecLatentRatio == InitLatentRatio /\ [][NextLoadCalc]_vars

\* the step function of the latent ratio
StepRatio(rh) ==
    IF rh <= 35 THEN Lit_0_15 ELSE IF rh >= 55 THEN Lit_0_25 ELSE Lit_0_20

\* the sensible load before rounding
UnroundedSensible(input) == Mul(sensiblePerSqFt(input), Num(input.sqft))

\* C18: the latent ratio is 0.15 for indoorRH <= 35, 0.25 for indoorRH >= 55
\* and 0.20 strictly between, and the latent load is the sensible load times
\* exactly that ratio.
C18_LatentRatioSteps ==
    Returned =>
        /\ latentRatio(lcInput.indoorRH) = StepRatio(lcInput.indoorRH)
        /\ latentRatio(lcInput.indoorRH) \in {Lit_0_15, Lit_0_20, Lit_0_25}
        /\ Result.latentBTUH =
             MathRound(Mul(UnroundedSensible(lcInput), StepRatio(lcInput.indoorRH)))

C18_Witness ==
    /\ Returned
    /\ lcInput = [AcceptanceInput EXCEPT !.indoorRH = 35]
    /\ Result.sensibleBTUH = 44083
    /\ Result.latentBTUH = 6612

----------------------------------------------------------------------------
(* Rounded against unrounded operands, checked under SpecLoadCalc.          *)

\* C19: the returned latentBTUH is round(S x latentRatio), S the returned
\* (rounded) sensibleBTUH.
C19_LatentFromRoundedSensible ==
    Returned =>
        Result.latentBTUH =
            MathRound(Mul(Num(Result.sensibleBTUH), latentRatio(lcInput.indoorRH)))

\* the closing note of a returned result
LastNote == Result.notes[Len(Result.notes)]

\* C20: the returned recommendedTonnage is round(T / 12000 x 4) / 4, T the
\* returned (rounded) totalBTUH, and the closing note quotes the returned
\* totalBTUH and recommendedTonnage.
C20_TonnageFromRoundedTotal ==
    Returned =>
        /\ Result.recommendedTonnage = recommendedTonnage(Num(Result.totalBTUH))
        /\ LastNote.btuh = Result.totalBTUH
        /\ LastNote.tons = ToFixed2(Result.recommendedTonnage)

\* the part of C20 about the closing note alone
C20_NoteQuotesResult ==
    Returned =>
        /\ LastNote.btuh = Result.totalBTUH
        /\ LastNote.tons = ToFixed2(Result.recommendedTonnage)

----------------------------------------------------------------------------
(* Provenance of afue, checked under SpecBackfill.                          *)

\* the strength of a source: label > inferred > model_lookup > unknown, an
\* absent (null, undefined or empty) source counting as unknown
SourceRank(afueSource) ==
    IF afueSource = JsStr("label") THEN 3
    ELSE IF afueSource = JsStr("inferred") THEN 2
    ELSE IF afueSource = JsStr("model_lookup") THEN 1
    ELSE 0

\* the source is absent (null, undefined or the empty string) or "unknown"
WeakSource(afueSource) ==
    IsNullish(afueSource) \/ afueSource \in {JsStr(""), JsStr("unknown")}

\* the n-th application set afue
SetsAfue(n) ==
    /\ eqHistory[n - 1] /= Null
    /\ IsNullish(eqHistory[n - 1][1].afue)
    /\ ~IsNullish(eqHistory[n][1].afue)

\* C21: over every application of the backfill the afueSource never gets
\* weaker in the order label > inferred > model_lookup > unknown; when the
\* application sets afue the source becomes "model_lookup" if it was absent
\* or "unknown" and keeps its value otherwise; when it does not set afue the
\* source is unchanged.
C21_NeverDowngrades ==
    \A n \in 2 .. Len(eqHistory) :
        /\ (eqHistory[n] = Null) = (eqHistory[n - 1] = Null)
        /\ eqHistory[n - 1] /= Null =>
              /\ SourceRank(eqHistory[n][1].afueSource)
                    >= SourceRank(eqHistory[n - 1][1].afueSource)
              /\ SetsAfue(n) =>
                    eqHistory[n][1].afueSource =
                        IF WeakSource(eqHistory[n - 1][1].afueSource)
                        THEN JsStr("model_lookup")
                        ELSE eqHistory[n - 1][1].afueSource
              /\ ~SetsAfue(n) =>
                    eqHistory[n][1].afueSource = eqHistory[n - 1][1].afueSource

C21_Witness ==
    /\ Len(eqHistory) = 3
    /\ eqHistory[1] /= Null
    /\ eqHistory[1][1].afue = JsNull
    /\ eqHistory[1][1].afueSource = JsStr("inferred")
    /\ eqHistory[2][1].afue = JsNum(95)
    /\ eqHistory[2][1].afueSource = JsStr("inferred")
    /\ eqHistory[3][1].afueSource = JsStr("inferred")

----------------------------------------------------------------------------
(* The equipment flags, checked under SpecEnrich on the backfilled record.  *)

FlagsDone == enPc = "done"

\* afue is non-null, afue >= 90 and ventType is metal_flue
HighAfueOnMetalFlue(equipment) ==
    /\ ~IsNullish(equipment.afue)
    /\ equipment.afue.num >= 90
    /\ equipment.ventType = JsStr("metal_flue")

\* afue is null (or missing) and ventType is pvc
NoAfueOnPvc(equipment) ==
    IsNullish(equipment.afue) /\ equipment.ventType = JsStr("pvc")

----------------------------------------------------------------------------
(* The order of the enrichment steps, checked under SpecIntake.             *)

\* the handler has answered a request with equipment photos for which the
\* vision model returned an object
EquipmentServed ==
    /\ Served
    /\ inRequest[1].equipmentPhotos > 0
    /\ inEquipmentOutput[1].kind = "object"

\* the properties of that object, as parsed
ParsedEquipment == inEquipmentOutput[1].fields[1]

\* the parsed record has no afue and a model number that is in the table
BackfillApplies ==
    IsNullish(ParsedEquipment.afue) /\ KeysOf(ParsedEquipment.modelNumber) /= {}

\* C23: warranty and flags are computed after the backfill, from the
\* backfilled record: a parsed record with null afue, a table model of AFUE
\* >= 90 and ventType metal_flue yields afueVentMismatch = true; one with null
\* afue, a table model and ventType pvc yields no PVC note; and the warranty
\* is what it would be on the record before the backfill.
C23_DerivedFromBackfilled ==
    EquipmentServed =>
        /\ BackfillApplies =>
              \A key \in KeysOf(ParsedEquipment.modelNumber) :
                  /\ inResponse[1].data.equipmentAnalysis[1][1].afue
                        = JsNum(TabledAfue(key))
                  /\ (TabledAfue(key) >= 90
                        /\ ParsedEquipment.ventType = JsStr("metal_flue")) =>
                        /\ inResponse[1].data.equipmentFlags[1][1].afueVentMismatch
                        /\ inResponse[1].data.equipmentFlags[1][1].notes = <<MismatchNote>>
                  /\ ParsedEquipment.ventType = JsStr("pvc") =>
                        inResponse[1].data.equipmentFlags[1][1].notes = <<>>
        /\ inResponse[1].data.warranty[1] =
              computeWarrantyInfo(parseEquipment(inRequest[1], inEquipmentOutput[1]),
                                  currentYear)

C23_Witness ==
    /\ EquipmentServed
    /\ BackfillApplies
    /\ ParsedEquipment.ventType = JsStr("metal_flue")
    /\ ParsedEquipment.manufactureYear = JsNum(2012)
    /\ inResponse[1].data.equipmentAnalysis[1][1].afue = JsNum(95)
    /\ inResponse[1].data.equipmentFlags[1][1].afueVentMismatch
    /\ inResponse[1].data.warranty[1].likelyWarrantyStatus = "likely_out_of_warranty"

----------------------------------------------------------------------------
(* The load calc result and the analysis it is paired with, checked under   *)
(* SpecPage.                                                                *)

\* C24: the load estimator is run, and its result merged into the
\* JobSummary, only once the analysis of the current intake has been
\* received: when the page takes an analysis and renders it, it holds no
\* load calc result, since any it held would have been computed before that
\* analysis was received.
C24_LoadCalcAfterAnalysis ==
    [][(pgAnalysis = Null /\ pgAnalysis' /= Null /\ ~pgCrashed')
         => pgLoadCalcResult' = Null]_vars

\* C27: whenever the panel displays a result r, the page holds
\* loadCalcResult = r, and whenever the page's loadCalcResult is null the
\* panel displays no result.
C27_PanelShowsPageResult ==
    /\ panelResult /= Null => pgLoadCalcResult = panelResult
    /\ pgLoadCalcResult = Null => panelResult = Null

\* the analysis has a numeric story count, a window amount and a siding type
HasAnalysedDefaults(analysis) ==
    /\ defaultStories(analysis) /= <<>>
    /\ defaultWindows(analysis) /= <<>>
    /\ defaultSiding(analysis) /= <<>>

\* C25: when the page takes a successful intake response whose exterior
\* analysis has a numeric story count, a window amount and a siding type, the
\* panel's stories, windows and siding (the input of the next Run Load Calc)
\* are those analysed values; the step itself holds no manual change.
C25_PanelTakesAnalysedValues ==
    [][(pgAnalysis' /= pgAnalysis /\ HasAnalysedDefaults(pgAnalysis') /\ ~pgCrashed')
         => /\ panelStories' = defaultStories(pgAnalysis')[1]
            /\ panelWindows' = defaultWindows(pgAnalysis')[1]
            /\ panelSiding' = defaultSiding(pgAnalysis')[1]]_vars

\* the square-footage entry is empty, non-numeric, zero or negative
BadSqftEntry ==
    \/ panelSqft = <<>>
    \/ NumberOf(panelSqft).nan
    \/ NumberOf(panelSqft).value <= 0

\* C26: Run Load Calc pressed with an empty, non-numeric, zero or negative
\* square-footage entry only alerts: the panel's result and the page's
\* loadCalcResult are unchanged; and runLoadCalc never raises its
\* invalid-input error in the panel.
C26_InvalidEntryOnlyAlerts ==
    [][/\ (BadSqftEntry /\ HandleRunCalc)
           => /\ panelOutcome' = "alert"
              /\ UNCHANGED <<panelResult, pgLoadCalcResult>>
       /\ panelOutcome' /= "error"]_vars

\* a result is displayed, and the last press, on an invalid entry, alerted
C26_Witness ==
    /\ BadSqftEntry
    /\ panelOutcome = "alert"
    /\ panelResult /= Null
    /\ pgLoadCalcResult = panelResult

----------------------------------------------------------------------------
(* ClarificationForm (src/components/ClarificationForm.tsx): the form is    *)
(* mounted on an exterior record, the user picks from its selects and       *)
(* confirms once; the confirmed record goes to validateExteriorAnalysis.    *)

\* toString() of a one-digit count
IntText(n) == DigitChars[n + 1]

\* analysis.stories.toString() of a story count held in tenths
StoriesText(tenths) ==
    IF tenths % 10 = 0 THEN IntText(tenths \div 10)
    ELSE IntText(tenths \div 10) \o "." \o IntText(tenths % 10)

initialStories(analysis) ==
    IF analysis.stories.kind = "number" THEN StoriesText(analysis.stories.num)
    ELSE IF analysis.stories = JsStr("unknown") THEN ""
    ELSE analysis.stories.str

initialWindows(analysis) ==
    IF analysis.windows = "unknown" \/ analysis.windows = "" THEN ""
    ELSE analysis.windows

initialSiding(analysis) ==
    IF analysis.siding = "unknown" \/ analysis.siding = "" THEN ""
    ELSE analysis.siding

\* the record handleSubmit hands to onConfirm
updated(analysis, stories, windows, siding) ==
    [stories    |-> JsStr(IF stories = "" THEN "unknown" ELSE stories),
     windows    |-> IF windows = "" THEN "unknown" ELSE windows,
     siding     |-> IF siding = "" THEN "unknown" ELSE siding,
     gutters    |-> analysis.gutters,
     condition  |-> analysis.condition,
     confidence |-> IF analysis.confidence = Null THEN Some(80)
                    ELSE analysis.confidence]

\* the option values of the three selects
StoriesOptions == {"", "1", "1.5", "2", "3"}

WindowsOptions == {"", "few", "average", "many"}

SidingOptions ==
    {"", "vinyl", "wood", "fiber cement", "stucco", "brick", "mixed", "unknown"}

\* the records the form is mounted on
ClarifyAnalyses ==
    [stories : {JsNum(10), JsNum(15), JsStr("unknown"), JsStr("2")},
     siding : {"vinyl", "unknown"},
     windows : {"many", ""},
     gutters : {"yes", "unclear"},
     condition : {"good", "poor"},
     confidence : {Null, Some(74), Some(75), Some(90)}]

InitClarify ==
    /\ \E a \in ClarifyAnalyses :
          /\ cfAnalysis = Some(a)
          /\ cfStories = initialStories(a)
          /\ cfWindows = initialWindows(a)
          /\ cfSiding = initialSiding(a)
    /\ IdleValidator
    /\ IdleLoadCalc
    /\ IdleBackfill
    /\ IdleEnrich
    /\ IdleIntake
    /\ IdlePage

\* onChange of the stories select, until the form is confirmed
FormSetStories ==
    /\ exterior = Null
    /\ \E v \in StoriesOptions : cfStories' = v
    /\ UNCHANGED <<loadCalcVars, validatorVars, cfAnalysis, cfWindows, cfSiding,
                   backfillVars, enrichVars, intakeVars, pageVars>>

\* onChange of the windows select
FormSetWindows ==
    /\ exterior = Null
    /\ \E v \in WindowsOptions : cfWindows' = v
    /\ UNCHANGED <<loadCalcVars, validatorVars, cfAnalysis, cfStories, cfSiding,
                   backfillVars, enrichVars, intakeVars, pageVars>>

\* onChange of the siding select
FormSetSiding ==
    /\ exterior = Null
    /\ \E v \in SidingOptions : cfSiding' = v
    /\ UNCHANGED <<loadCalcVars, validatorVars, cfAnalysis, cfStories, cfWindows,
                   backfillVars, enrichVars, intakeVars, pageVars>>

\* handleSubmit: onConfirm(updated), the record that is validated next
FormHandleSubmit ==
    /\ exterior = Null
    /\ exterior' = Some(updated(cfAnalysis[1], cfStories, cfWindows, cfSiding))
    /\ UNCHANGED <<loadCalcVars, validation, clarifyVars, backfillVars, enrichVars,
                   intakeVars, pageVars>>

\* the confirmed record re-enters validateExteriorAnalysis
Revalidate == exterior /= Null /\ ValidateExterior

NextClarify ==
    \/ FormSetStories
    \/ FormSetWindows
    \/ FormSetSiding
    \/ FormHandleSubmit
    \/ Revalidate

SpecClarify == InitClarify /\ [][NextClarify]_vars

\* the record was confirmed with stories, windows and siding chosen
ConfirmedWithChoices ==
    /\ exterior /= Null
    /\ exterior[1].stories.str \in {"1", "1.5", "2", "3"}
    /\ exterior[1].windows \in {"few", "average", "many"}
    /\ exterior[1].siding \in
          {"vinyl", "wood", "fiber cement", "stucco", "brick", "mixed"}

\* C28: a record confirmed with stories from {1, 1.5, 2, 3}, windows from
\* {few, average, many} and siding from {vinyl, wood, fiber cement, stucco,
\* brick, mixed} keeps gutters and condition of the original, and
\* validateExteriorAnalysis finds no issue in it and needs no
\* clarification, whatever the original record was, its confidence below
\* 0.75 included.
C28_ConfirmedRecordPasses ==
    (ConfirmedWithChoices /\ validation /= Null) =>
        /\ exterior[1].gutters = cfAnalysis[1].gutters
        /\ exterior[1].condition = cfAnalysis[1].condition
        /\ validation[1].issues = <<>>
        /\ ~validation[1].needsClarification

====
